---------------------------- MODULE Spec2Model ----------------------------
(***************************************************************************)
(* A model of idempotency-redis: IdempotentExecutor.run (the redlock       *)
(* variant with the error taxonomy of executor.errors.ts), RedisCache and  *)
(* the two built-in serializers.                                           *)
(*                                                                         *)
(* Runs are the concurrent callers of run().  A run suspends at the lock   *)
(* round trips, the two store round trips and the action; everything       *)
(* between two suspension points is one atomic step, as on the event loop. *)
(* The lock collaborator (redlock.using) is modelled as mutual exclusion   *)
(* per resource with a bounded number of acquisition attempts and a lock   *)
(* that is extended for as long as its routine runs.                       *)
(***************************************************************************)
EXTENDS Integers, Sequences, FiniteSets, TLC

(***************************************************************************)
(* Bounds of the model.                                                    *)
(***************************************************************************)
\* Number of run() calls in a behaviour.
NumRuns == 3
\* The largest retryCount (timeout / 200) a run may ask for.
MaxRetryCount == 1
\* Number of run() calls in a behaviour whose calls take any options.
NumOptionRuns == 2

\* retryDelay handed to redlock.using, in milliseconds.
RetryDelay == 200

Runs == 1..NumRuns
Keys == {"key1", "key2"}
\* The timeout option, in milliseconds: whole multiples of the retry delay.
Timeouts == {RetryDelay * n : n \in 1..MaxRetryCount}

(***************************************************************************)
(* JavaScript data.  A string-or-undefined is [def, str]; a value an       *)
(* action resolves with (or throws, when it is not an Error) is [t, s];    *)
(* an Error object is a record with its class and own properties.          *)
(***************************************************************************)
JsUndefined == [def |-> FALSE, str |-> ""]
JsString(s) == [def |-> TRUE, str |-> s]
Truthy(js) == js.def /\ js.str # ""

Undef == [t |-> "undefined", s |-> ""]
Str(s) == [t |-> "string", s |-> s]
Num(s) == [t |-> "number", s |-> s]
\* An object that refers to itself: JSON.stringify throws on it.
Cyclic == [t |-> "cyclic", s |-> ""]

NoError ==
  [cls |-> "", name |-> "", message |-> "", stack |-> "",
   idempotencyKey |-> "", callback |-> "", cause |-> ""]
\* new Error(message) of class cls (Error or a subclass that sets its name).
MkError(cls, message) ==
  [NoError EXCEPT !.cls = cls, !.name = cls, !.message = message,
                  !.stack = "at action"]

\* IdempotentExecutorErrorBase and its subclasses: name is the class name.
ExecutorError(cls, message, idempotencyKey, cause) ==
  [NoError EXCEPT !.cls = cls, !.name = cls, !.message = message,
                  !.stack = "at run", !.idempotencyKey = idempotencyKey,
                  !.cause = cause]
IdempotentExecutorCriticalError(message, k, cause) ==
  ExecutorError("IdempotentExecutorCriticalError",
                "Possibly non-idempotent execution: " \o message, k, cause)
IdempotentExecutorSerializationError(message, k, cause) ==
  ExecutorError("IdempotentExecutorSerializationError", message, k, cause)
IdempotentExecutorCacheError(message, k, cause) ==
  ExecutorError("IdempotentExecutorCacheError", message, k, cause)
IdempotentExecutorCallbackError(message, k, callback, cause) ==
  [ExecutorError("IdempotentExecutorCallbackError", message, k, cause)
     EXCEPT !.callback = callback]
IdempotentExecutorNonErrorWrapperError(message, k, cause) ==
  ExecutorError("IdempotentExecutorNonErrorWrapperError", message, k, cause)
IdempotentExecutorUnknownError(message, k, cause) ==
  ExecutorError("IdempotentExecutorUnknownError", message, k, cause)

ErrorBaseClasses ==
  {"IdempotentExecutorCriticalError", "IdempotentExecutorSerializationError",
   "IdempotentExecutorCacheError", "IdempotentExecutorCallbackError",
   "IdempotentExecutorNonErrorWrapperError", "IdempotentExecutorUnknownError"}
\* error instanceof IdempotentExecutorErrorBase
InstanceOfErrorBase(e) == e.cls \in ErrorBaseClasses

(***************************************************************************)
(* What the action of a run may do: resolve with a value or reject with    *)
(* an Error, an instance of a subclass of Error, or a value that is no     *)
(* Error.  Every invocation picks afresh (the action is non-deterministic).*)
(***************************************************************************)
ActionValues == {Str("v1"), Str("v2"), Undef, Cyclic}
ActionErrors == {MkError("Error", "action failed"), MkError("CustomError", "boom")}
ActionNonErrors == {Num("42")}
ActionOutcomes ==
  [kind : {"resolve"}, value : ActionValues, error : {NoError}]
    \cup [kind : {"reject"}, value : {Undef}, error : ActionErrors]
    \cup [kind : {"rejectNonError"}, value : ActionNonErrors, error : {NoError}]

(***************************************************************************)
(* Serializers.  A call either returns a string-or-undefined / a value /   *)
(* an error, or throws; the thrown error is named by `thrown`.             *)
(***************************************************************************)
Returned(x) == [ok |-> TRUE, out |-> x, thrown |-> ""]
Threw(what) == [ok |-> FALSE, out |-> JsUndefined, thrown |-> what]

\* The strings a model value can hold, for parsing by search.
StringUniverse == {"v1", "v2", "V1", "V2"}
Quote(s) == "\"" \o s \o "\""
ToUpperCase(s) ==
  CASE s = "v1" -> "V1" [] s = "v2" -> "V2" [] OTHER -> s

\* JSON.stringify(value)
JSONStringify(v) ==
  CASE v.t = "undefined" -> Returned(JsUndefined)
    [] v.t = "string" -> Returned(JsString(Quote(v.s)))
    [] v.t = "number" -> Returned(JsString(v.s))
    [] OTHER -> Threw("TypeError: Converting circular structure to JSON")
\* JSON.parse(text), for the texts the model can hold
JSONParse(text) ==
  IF \E s \in StringUniverse : Quote(s) = text
    THEN [ok |-> TRUE, out |-> Str(CHOOSE s \in StringUniverse : Quote(s) = text),
          thrown |-> ""]
    ELSE IF text = "42"
      THEN [ok |-> TRUE, out |-> Num("42"), thrown |-> ""]
      ELSE [ok |-> FALSE, out |-> Undef, thrown |-> "SyntaxError"]

\* JSONSerializer.serialize
JSONSerializer_serialize(value) == JSONStringify(value)
\* A deserialize that hands back the text as it is stored.
deserializeAsText(text) == [ok |-> TRUE, out |-> Str(text), thrown |-> ""]
\* JSONSerializer.deserialize
JSONSerializer_deserialize(text) == JSONParse(text)

\* A caller's serializer that extends JSONSerializer and stores the value in
\* upper case: serialize(value) = JSON.stringify(value.toUpperCase()).
CustomSerializer_serialize(value) ==
  IF value.t = "string"
    THEN JSONStringify(Str(ToUpperCase(value.s)))
    ELSE Threw("TypeError: value.toUpperCase is not a function")

ValueSerializers == {"JSONSerializer", "CustomSerializer"}
Serialize(valueSerializer, value) ==
  IF valueSerializer = "CustomSerializer"
    THEN CustomSerializer_serialize(value)
    ELSE JSONSerializer_serialize(value)
Deserialize(valueSerializer, text) == JSONSerializer_deserialize(text)

\* serializeError keeps name, message and stack; JSON.stringify writes them.
ErrorJson(name, message, stack) ==
  "{\"name\":" \o Quote(name) \o ",\"message\":" \o Quote(message)
    \o ",\"stack\":" \o Quote(stack) \o "}"
\* A serialize that writes the name of the error only.
serializeNameOnly(e) == Returned(JsString(Quote(e.name)))
\* DefaultErrorSerializer.serialize
DefaultErrorSerializer_serialize(e) ==
  Returned(JsString(ErrorJson(e.name, e.message, e.stack)))
\* A caller's error serializer whose serialize throws.
ThrowingErrorSerializer_serialize(e) == Threw("Error: cannot serialize error")
ErrorSerializers == {"DefaultErrorSerializer", "ThrowingErrorSerializer"}
SerializeError(errorSerializer, e) ==
  IF errorSerializer = "ThrowingErrorSerializer"
    THEN ThrowingErrorSerializer_serialize(e)
    ELSE DefaultErrorSerializer_serialize(e)
\* The (name, message, stack) triples an error text of the model can hold.
SerializedErrorUniverse ==
  {<<e.name, e.message, e.stack>> : e \in ActionErrors}
    \cup {<<"IdempotentExecutorNonErrorWrapperError", "Non-error thrown", "at run">>}
\* DefaultErrorSerializer.deserialize: JSON.parse, isSerializedError, then
\* deserializeError, which builds a plain Error with the three properties.
DefaultErrorSerializer_deserialize(text) ==
  IF \E t \in SerializedErrorUniverse : ErrorJson(t[1], t[2], t[3]) = text
    THEN LET t == CHOOSE u \in SerializedErrorUniverse :
                    ErrorJson(u[1], u[2], u[3]) = text
         IN [ok |-> TRUE,
             out |-> [NoError EXCEPT !.cls = "Error", !.name = t[1],
                                     !.message = t[2], !.stack = t[3]],
             thrown |-> ""]
    ELSE IF JSONParse(text).ok
      THEN [ok |-> FALSE, out |-> NoError,
            thrown |-> "SerializerError: Invalid serialized error format"]
      ELSE [ok |-> FALSE, out |-> NoError,
            thrown |-> "SerializerError: Invalid JSON"]

(***************************************************************************)
(* RedisCache: a CachedResult is stored as the fields of a Redis hash.     *)
(***************************************************************************)
\* hgetall of a key that does not exist: no field.
EmptyHash == [type |-> JsUndefined, error |-> JsUndefined, value |-> JsUndefined]
Null == [isNull |-> TRUE, type |-> "", error |-> JsUndefined, value |-> JsUndefined]
ErrorResult(serializedError) ==
  [isNull |-> FALSE, type |-> "error", error |-> serializedError, value |-> JsUndefined]
ValueResult(serializedValue) ==
  [isNull |-> FALSE, type |-> "value", error |-> JsUndefined, value |-> serializedValue]

\* A get that finds nothing.
alwaysNull(hash) == Null

\* A get that hands back the value field of a value record as it is stored.
getValueAsStored(hash) ==
  IF ~Truthy(hash.type) THEN Null
  ELSE IF hash.type.str = "error" THEN ErrorResult(hash.error)
  ELSE ValueResult(hash.value)

\* RedisCache.get, given the hash hgetall returned
RedisCache_get(hash) ==
  IF ~Truthy(hash.type) THEN Null
  ELSE IF hash.type.str = "error" THEN ErrorResult(hash.error)
  ELSE IF Truthy(hash.value) THEN ValueResult(hash.value)
  ELSE ValueResult(JsUndefined)

\* A set that stores nothing.
setNothing(hash, cachedResult) == hash

\* A client that writes undefined as the text "undefined".
ToArgAsText(js) == IF js.def THEN js ELSE JsString("undefined")
\* How the client writes an argument: undefined goes out as the empty string.
ToArg(js) == IF js.def THEN js ELSE JsString("")
\* RedisCache.set: hset(key, object) sets the object's own fields of the hash
\* and leaves its other fields as they are.
RedisCache_set(hash, cachedResult) ==
  IF cachedResult.type = "error"
    THEN [hash EXCEPT !.type = JsString("error"), !.error = ToArg(cachedResult.error)]
    ELSE [hash EXCEPT !.type = JsString("value"), !.value = ToArg(cachedResult.value)]

(***************************************************************************)
(* Run options.  A callback option is absent ("none"), a function that     *)
(* returns a replacement ("returns") or a function that throws ("throws"). *)
(***************************************************************************)
Callbacks == {"none", "returns", "throws"}
\* shouldIgnoreError is an option the callers of the tests pass; RunOptions
\* of run() has no such member and run() does not read it.
DefaultOptions(timeout) ==
  [timeout |-> timeout,
   valueSerializer |-> "JSONSerializer",
   errorSerializer |-> "DefaultErrorSerializer",
   ignoreErrors |-> FALSE,
   shouldIgnoreError |-> "none",
   onActionSuccess |-> "none", onActionError |-> "none",
   onSuccessReplay |-> "none", onErrorReplay |-> "none"]
\* The options a run may be called with: the defaults, the defaults with
\* one option supplied, or the defaults with the four callbacks supplied.
AllCallbacks(timeout) ==
  [DefaultOptions(timeout) EXCEPT
     !.onActionSuccess = "returns", !.onActionError = "returns",
     !.onSuccessReplay = "returns", !.onErrorReplay = "returns"]
RunOptions ==
  UNION {
    {DefaultOptions(t),
     AllCallbacks(t),
     [DefaultOptions(t) EXCEPT !.shouldIgnoreError = "throws"],
     [DefaultOptions(t) EXCEPT !.ignoreErrors = TRUE],
     [DefaultOptions(t) EXCEPT !.valueSerializer = "CustomSerializer"],
     [DefaultOptions(t) EXCEPT !.errorSerializer = "ThrowingErrorSerializer"]}
    \cup {[DefaultOptions(t) EXCEPT !.onActionSuccess = c] : c \in Callbacks}
    \cup {[DefaultOptions(t) EXCEPT !.onActionError = c] : c \in Callbacks}
    \cup {[DefaultOptions(t) EXCEPT !.onSuccessReplay = c] : c \in Callbacks}
    \cup {[DefaultOptions(t) EXCEPT !.onErrorReplay = c] : c \in Callbacks}
    : t \in Timeouts}
\* The options of callers that supply no callback and no serializer.
BasicOptions ==
  UNION {
    {DefaultOptions(t), [DefaultOptions(t) EXCEPT !.ignoreErrors = TRUE]}
    : t \in Timeouts}
IsDefault(o) == o = DefaultOptions(o.timeout)

\* A value callback that returns: the replacement names the callback.
CallbackValue(callbackName, value) == Str(callbackName \o " result")
\* An error callback that returns: a new Error naming the callback.
CallbackErrorValue(callbackName, error) == MkError("Error", callbackName \o " error")

(***************************************************************************)
(* IdempotentExecutor.  What the routine handed to redlock.using does      *)
(* between two suspension points ends in a return, a throw, or the call    *)
(* of the action.  A thrown ReplayedErrorWrapper carries its origin.       *)
(***************************************************************************)
\* A cache key that is the same for every idempotency key.
CacheKeyShared(idempotencyKey) == "idempotent-executor-result:key1"
CacheKey(idempotencyKey) == "idempotent-executor-result:" \o idempotencyKey
CacheKeys == {CacheKey(k) : k \in Keys}

Return(v) ==
  [kind |-> "return", value |-> v, error |-> NoError, wrapper |-> FALSE, called |-> {}]
Throw(e) ==
  [kind |-> "throw", value |-> Undef, error |-> e, wrapper |-> FALSE, called |-> {}]
ThrowReplayedErrorWrapper(origin) ==
  [kind |-> "throw", value |-> Undef, error |-> origin, wrapper |-> TRUE, called |-> {}]
ExecuteAction ==
  [kind |-> "action", value |-> Undef, error |-> NoError, wrapper |-> FALSE, called |-> {}]
\* A call of a callback of the options, with its arguments.
CallOf(callback, idempotencyKey, value, error) ==
  [callback |-> callback, idempotencyKey |-> idempotencyKey, value |-> value,
   error |-> error]
\* The routine ends as `routine` after it called the callback.
Calling(callback, idempotencyKey, value, error, routine) ==
  [routine EXCEPT !.called = {CallOf(callback, idempotencyKey, value, error)}]

\* The text a serializer's deserialize is handed.
TextOf(js) == IF js.def THEN js.str ELSE "undefined"

\* replayCachedError
\* A replayCachedError that calls the action when onErrorReplay throws.
replayCachedErrorOrExecute(idempotencyKey, errorSerializer, serializedError, onErrorReplay) ==
  LET d == DefaultErrorSerializer_deserialize(TextOf(serializedError))
  IN IF ~d.ok
       THEN Throw(IdempotentExecutorSerializationError(
                    "Failed to parse cached error", idempotencyKey, d.thrown))
     ELSE IF onErrorReplay = "throws"
       THEN Calling("onErrorReplay", idempotencyKey, Undef, d.out, ExecuteAction)
     ELSE IF onErrorReplay = "returns"
       THEN Calling("onErrorReplay", idempotencyKey, Undef, d.out,
                    ThrowReplayedErrorWrapper(CallbackErrorValue("onErrorReplay", d.out)))
     ELSE ThrowReplayedErrorWrapper(d.out)

replayCachedError(idempotencyKey, errorSerializer, serializedError, onErrorReplay) ==
  LET d == DefaultErrorSerializer_deserialize(TextOf(serializedError))
  IN IF ~d.ok
       THEN Throw(IdempotentExecutorSerializationError(
                    "Failed to parse cached error", idempotencyKey, d.thrown))
     ELSE IF onErrorReplay = "throws"
       THEN Calling("onErrorReplay", idempotencyKey, Undef, d.out,
                    Throw(IdempotentExecutorCallbackError(
                            "Failed to execute onErrorReplay callback", idempotencyKey,
                            "onErrorReplay", "Error: onErrorReplay failed")))
     ELSE IF onErrorReplay = "returns"
       THEN Calling("onErrorReplay", idempotencyKey, Undef, d.out,
                    ThrowReplayedErrorWrapper(CallbackErrorValue("onErrorReplay", d.out)))
     ELSE ThrowReplayedErrorWrapper(d.out)

\* A replayCachedValue that calls the action when the value does not parse.
replayCachedValueOrExecute(idempotencyKey, valueSerializer, serializedValue, onSuccessReplay) ==
  LET d == Deserialize(valueSerializer, TextOf(serializedValue))
  IN IF ~d.ok THEN ExecuteAction
     ELSE IF onSuccessReplay = "returns"
       THEN Return(CallbackValue("onSuccessReplay", d.out))
     ELSE Return(d.out)

\* replayCachedValue
replayCachedValue(idempotencyKey, valueSerializer, serializedValue, onSuccessReplay) ==
  LET d == Deserialize(valueSerializer, TextOf(serializedValue))
  IN IF ~d.ok
       THEN Throw(IdempotentExecutorSerializationError(
                    "Failed to parse cached value", idempotencyKey, d.thrown))
     ELSE IF onSuccessReplay = "throws"
       THEN Calling("onSuccessReplay", idempotencyKey, d.out, NoError,
                    Throw(IdempotentExecutorCallbackError(
                            "Failed to execute onSuccessReplay callback", idempotencyKey,
                            "onSuccessReplay", "Error: onSuccessReplay failed")))
     ELSE IF onSuccessReplay = "returns"
       THEN Calling("onSuccessReplay", idempotencyKey, d.out, NoError,
                    Return(CallbackValue("onSuccessReplay", d.out)))
     ELSE Return(d.out)

\* A routine that never replays: it calls the action whatever is cached.
alwaysExecute(idempotencyKey, options, cachedResult) == ExecuteAction

\* A routine that hands every value record to replayCachedValue, with or
\* without value.
replayEveryValue(idempotencyKey, options, cachedResult) ==
  IF ~cachedResult.isNull /\ cachedResult.type = "error" /\ ~options.ignoreErrors
    THEN replayCachedError(idempotencyKey, options.errorSerializer,
                           cachedResult.error, options.onErrorReplay)
  ELSE IF ~cachedResult.isNull /\ cachedResult.type # "error"
    THEN replayCachedValue(idempotencyKey, options.valueSerializer,
                           cachedResult.value, options.onSuccessReplay)
  ELSE ExecuteAction

\* A routine that replays an error record whatever options.ignoreErrors is.
replayEveryError(idempotencyKey, options, cachedResult) ==
  IF ~cachedResult.isNull /\ cachedResult.type = "error"
    THEN replayCachedError(idempotencyKey, options.errorSerializer,
                           cachedResult.error, options.onErrorReplay)
  ELSE IF ~cachedResult.isNull /\ cachedResult.type # "error"
    THEN IF ~cachedResult.value.def
           THEN Return(Undef)
           ELSE replayCachedValue(idempotencyKey, options.valueSerializer,
                                  cachedResult.value, options.onSuccessReplay)
  ELSE ExecuteAction

\* The routine from the cached result to the call of the action.
replayOrExecute(idempotencyKey, options, cachedResult) ==
  IF ~cachedResult.isNull /\ cachedResult.type = "error" /\ ~options.ignoreErrors
    THEN replayCachedError(idempotencyKey, options.errorSerializer,
                           cachedResult.error, options.onErrorReplay)
  ELSE IF ~cachedResult.isNull /\ cachedResult.type # "error"
    THEN IF ~cachedResult.value.def
           THEN Return(Undef)
           ELSE replayCachedValue(idempotencyKey, options.valueSerializer,
                                  cachedResult.value, options.onSuccessReplay)
  ELSE ExecuteAction

\* An actionResult whose wrapper of a thrown non-error forgets what was thrown.
ActionResultNoCause(idempotencyKey, outcome) ==
  CASE outcome.kind = "resolve" -> [isError |-> FALSE, value |-> outcome.value, error |-> NoError]
    [] outcome.kind = "reject" -> [isError |-> TRUE, value |-> Undef, error |-> outcome.error]
    [] OTHER ->
         [isError |-> TRUE, value |-> Undef,
          error |-> IdempotentExecutorNonErrorWrapperError(
                      "Non-error thrown", idempotencyKey, "")]

\* actionResult: T | Error, from what the action did.
ActionResultOf(idempotencyKey, outcome) ==
  CASE outcome.kind = "resolve" -> [isError |-> FALSE, value |-> outcome.value, error |-> NoError]
    [] outcome.kind = "reject" -> [isError |-> TRUE, value |-> Undef, error |-> outcome.error]
    [] OTHER ->
         [isError |-> TRUE, value |-> Undef,
          error |-> IdempotentExecutorNonErrorWrapperError(
                      "Non-error thrown", idempotencyKey, outcome.value.s)]
NoActionResult == [isError |-> FALSE, value |-> Undef, error |-> NoError]

\* cacheResult, up to the call of cache.set: the CachedResult to store, or
\* what a serializer threw.
cacheResultSerialize(actionResult, valueSerializer, errorSerializer) ==
  IF actionResult.isError
    THEN LET s == SerializeError(errorSerializer, actionResult.error)
         IN [ok |-> s.ok, out |-> ErrorResult(s.out), thrown |-> s.thrown]
    ELSE LET s == Serialize(valueSerializer, actionResult.value)
         IN [ok |-> s.ok, out |-> ValueResult(s.out), thrown |-> s.thrown]

\* A throwError that lets what onActionError throws go out as it is.
throwErrorUnwrapped(idempotencyKey, error, onActionError) ==
  IF onActionError = "throws"
    THEN Calling("onActionError", idempotencyKey, Undef, error,
                 Throw(MkError("Error", "onActionError failed")))
  ELSE IF onActionError = "returns"
    THEN Calling("onActionError", idempotencyKey, Undef, error,
                 ThrowReplayedErrorWrapper(CallbackErrorValue("onActionError", error)))
  ELSE ThrowReplayedErrorWrapper(error)

\* throwError
throwError(idempotencyKey, error, onActionError) ==
  IF onActionError = "throws"
    THEN Calling("onActionError", idempotencyKey, Undef, error,
                 Throw(IdempotentExecutorCallbackError(
                         "Failed to execute onActionError callback", idempotencyKey,
                         "onActionError", "Error: onActionError failed")))
  ELSE IF onActionError = "returns"
    THEN Calling("onActionError", idempotencyKey, Undef, error,
                 ThrowReplayedErrorWrapper(CallbackErrorValue("onActionError", error)))
  ELSE ThrowReplayedErrorWrapper(error)

\* A returnResult that lets what the callback throws go out as it is.
returnResultUnwrapped(idempotencyKey, value, onActionSuccess) ==
  IF onActionSuccess = "throws"
    THEN Calling("onActionSuccess", idempotencyKey, value, NoError,
                 Throw(MkError("Error", "onActionSuccess failed")))
  ELSE IF onActionSuccess = "returns"
    THEN Calling("onActionSuccess", idempotencyKey, value, NoError,
                 Return(CallbackValue("onActionSuccess", value)))
  ELSE Return(value)

\* A returnResult that calls the callback and returns the action's value.
returnResultUnchanged(idempotencyKey, value, onActionSuccess) ==
  IF onActionSuccess = "none"
    THEN Return(value)
    ELSE Calling("onActionSuccess", idempotencyKey, value, NoError, Return(value))

\* returnResult
returnResult(idempotencyKey, value, onActionSuccess) ==
  IF onActionSuccess = "throws"
    THEN Calling("onActionSuccess", idempotencyKey, value, NoError,
                 Throw(IdempotentExecutorCallbackError(
                         "Failed to execute onActionSuccess callback", idempotencyKey,
                         "onActionSuccess", "Error: onActionSuccess failed")))
  ELSE IF onActionSuccess = "returns"
    THEN Calling("onActionSuccess", idempotencyKey, value, NoError,
                 Return(CallbackValue("onActionSuccess", value)))
  ELSE Return(value)

\* The routine after cacheResult: throw the error or return the value.
dispatch(idempotencyKey, options, actionResult) ==
  IF actionResult.isError
    THEN throwError(idempotencyKey, actionResult.error, options.onActionError)
    ELSE returnResult(idempotencyKey, actionResult.value, options.onActionSuccess)

\* What run() settles with.
Resolved(v) == [kind |-> "resolved", value |-> v, error |-> NoError]
Rejected(e) == [kind |-> "rejected", value |-> Undef, error |-> e]
Pending == [kind |-> "pending", value |-> Undef, error |-> NoError]

\* A catch that wraps whatever is thrown.
wrapEverything(idempotencyKey, routine) ==
  IF routine.kind = "return" THEN Resolved(routine.value)
  ELSE Rejected(IdempotentExecutorUnknownError(
                  "Failed to execute action idempotently", idempotencyKey,
                  routine.error.name))
\* A catch that rethrows whatever is thrown.
rethrowAll(idempotencyKey, routine) ==
  IF routine.kind = "return" THEN Resolved(routine.value)
  ELSE Rejected(routine.error)

\* A catch that rejects with the ReplayedErrorWrapper itself.
runCatchKeepsWrapper(idempotencyKey, routine) ==
  IF routine.kind = "return" THEN Resolved(routine.value)
  ELSE IF routine.wrapper
    THEN Rejected(MkError("ReplayedErrorWrapper", "Replayed error"))
  ELSE IF InstanceOfErrorBase(routine.error) THEN Rejected(routine.error)
  ELSE Rejected(IdempotentExecutorUnknownError(
                  "Failed to execute action idempotently", idempotencyKey,
                  routine.error.name))

\* The catch of run(): an executor error goes out as it is, a
\* ReplayedErrorWrapper gives its origin, anything else is wrapped.
runCatch(idempotencyKey, routine) ==
  IF routine.kind = "return" THEN Resolved(routine.value)
  ELSE IF ~routine.wrapper /\ InstanceOfErrorBase(routine.error)
    THEN Rejected(routine.error)
  ELSE IF routine.wrapper THEN Rejected(routine.error)
  ELSE Rejected(IdempotentExecutorUnknownError(
                  "Failed to execute action idempotently", idempotencyKey,
                  routine.error.name))

(***************************************************************************)
(* The arguments of redlock.using.  A JavaScript number need not be whole: *)
(* it is num / den with den > 0, and `/` divides without rounding.         *)
(***************************************************************************)
Ms(n) == [num |-> n, den |-> 1]
Tenths(n) == [num |-> n, den |-> 10]
Divide(x, n) == [num |-> x.num, den |-> x.den * n]
Times(x, n) == [num |-> x.num * n, den |-> x.den]
IsInteger(x) == x.num % x.den = 0
Ceil(x) == (x.num + x.den - 1) \div x.den
SameNumber(x, y) == x.num * y.den = y.num * x.den
AtMost(x, y) == x.num * y.den <= y.num * x.den
\* No call of redlock.using yet.
NoUsing ==
  [timeout |-> Ms(0), duration |-> Ms(0),
   settings |-> [retryCount |-> Ms(0), retryDelay |-> Ms(0),
                 automaticExtensionThreshold |-> Ms(0)]]
\* redlock.using([cacheKey], timeout, {retryCount: timeout / 200,
\* retryDelay: 200, automaticExtensionThreshold: timeout / 2}, ...).
UsingArgs(timeout) ==
  [timeout |-> timeout,
   duration |-> timeout,
   settings |-> [retryCount |-> Divide(timeout, RetryDelay),
                 retryDelay |-> Ms(RetryDelay),
                 automaticExtensionThreshold |-> Divide(timeout, 2)]]

(***************************************************************************)
(* The state.                                                              *)
(***************************************************************************)
VARIABLES
  pc,           \* where each run is
  key,          \* the idempotencyKey of each run
  options,      \* the options of each run
  attempts,     \* lock acquisition attempts each run has made and lost
  lock,         \* per resource, the runs holding its lock (none or one)
  store,        \* per cache key, the Redis hash stored under it
  actionResult, \* what the action of each run produced (T | Error)
  result,       \* what each run() settled with
  writer,       \* history: per cache key, the runs that last wrote it
  hist,         \* history: what each run has done
  executor,     \* the options of the executor each run is called on
  pexpire,      \* per cache key, the expiries sent for it (milliseconds)
  setCalls,     \* per cache key, the values a user of RedisCache handed to set
  getResult,    \* per cache key, what that user's get since returned
  usingArgs     \* what each run handed to redlock.using, and from which timeout

vars ==
  <<pc, key, options, attempts, lock, store, actionResult, result, writer, hist,
    executor, pexpire, setCalls, getResult, usingArgs>>

NoHistory ==
  [acquired |-> FALSE,     \* the run got the lock
   invoked |-> 0,          \* calls of the action
   reads |-> 0,            \* cache.get calls
   writes |-> 0,           \* cache.set calls
   storeFailed |-> FALSE,  \* a store operation of the run failed
   getFailed |-> FALSE,    \* the cache.get of the run failed
   serializeFailed |-> FALSE, \* a serializer threw while persisting
   ignored |-> FALSE,      \* the run passed over a stored error (ignoreErrors)
   threw |-> "",           \* the non-error the action of the run threw
   rejected |-> NoError,   \* the Error the action of the run rejected with
   called |-> {},          \* the calls of callbacks the run made
   replayed |-> {},        \* the runs whose record the run replayed
   startedAfter |-> {},    \* the runs that had settled when the run was called
   gaveUpOn |-> {}]        \* the lock holders when the run gave up

\* No get of the user of RedisCache has returned since the last set.
NotRead == [isNull |-> FALSE, type |-> "", error |-> JsUndefined, value |-> JsUndefined]

\* What a caller hands to the constructor next to the client: a namespace
\* ("" for none) and ttlMs: no number (NoTtl) or one, here in tenths of a
\* millisecond.  The tests pass 399.1 and, as values no executor should be
\* constructed with, 0 and -1.
TenthsPerMs == 10
NoTtl == <<>>
TtlTenths == 3991
InvalidTtls == {<<0>>, <<-10>>}
IsValidTtl(ttlMs) == ttlMs = NoTtl \/ ttlMs[1] > 0
NoExecutorOptions == [namespace |-> "", ttlMs |-> NoTtl]
ExecutorOptions ==
  [namespace : {"", "namespace1", "namespace2"},
   ttlMs : {NoTtl, <<TtlTenths>>} \cup InvalidTtls]

Init ==
  /\ pc = [r \in Runs |-> "idle"]
  /\ key = [r \in Runs |-> "key1"]
  /\ options = [r \in Runs |-> DefaultOptions(RetryDelay)]
  /\ attempts = [r \in Runs |-> 0]
  /\ lock = [k \in Keys |-> {}]
  /\ store = [c \in CacheKeys |-> EmptyHash]
  /\ actionResult = [r \in Runs |-> NoActionResult]
  /\ result = [r \in Runs |-> Pending]
  /\ writer = [c \in CacheKeys |-> {}]
  /\ hist = [r \in Runs |-> NoHistory]
  /\ executor = [r \in Runs |-> NoExecutorOptions]
  /\ pexpire = [c \in CacheKeys |-> {}]
  /\ setCalls = [c \in CacheKeys |-> <<>>]
  /\ getResult = [c \in CacheKeys |-> NotRead]
  /\ usingArgs = [r \in Runs |-> NoUsing]

\* The attempts redlock makes before it gives up: retryCount + 1, where
\* retryCount is timeout / 200.
MaxAttempts(timeout) == (timeout \div RetryDelay) + 1

\* run(idempotencyKey, action, options) is called; the first attempt to
\* acquire the lock is sent.  Runs are numbered in the order of their calls.
StartOn(r, e, k, o) ==
  /\ pc[r] = "idle"
  /\ \A q \in Runs : q < r => pc[q] # "idle"
  /\ pc' = [pc EXCEPT ![r] = "acquiring"]
  /\ executor' = [executor EXCEPT ![r] = e]
  /\ key' = [key EXCEPT ![r] = k]
  /\ options' = [options EXCEPT ![r] = o]
  /\ hist' = [hist EXCEPT ![r].startedAfter = {q \in Runs : pc[q] = "done"}]
  /\ usingArgs' = [usingArgs EXCEPT ![r] = UsingArgs(Ms(o.timeout))]
  /\ UNCHANGED <<setCalls, getResult, pexpire, attempts, lock, store, actionResult,
                 result, writer>>

\* run() on an executor constructed with the client only.
Start(r, k, o) == StartOn(r, NoExecutorOptions, k, o)

\* An acquire that takes the lock whoever holds it, as when the holder's
\* lock has been left to lapse.
AcquireLapsed(r) ==
  /\ pc[r] = "acquiring"
  /\ lock' = [lock EXCEPT ![key[r]] = {r}]
  /\ pc' = [pc EXCEPT ![r] = "getCachedResult"]
  /\ hist' = [hist EXCEPT ![r].acquired = TRUE, ![r].reads = @ + 1]
  /\ UNCHANGED <<usingArgs, setCalls, getResult, executor, pexpire, key, options, attempts, store, actionResult, result, writer>>

\* A using that starts the routine without taking the lock.
AcquireNoLock(r) ==
  /\ pc[r] = "acquiring"
  /\ pc' = [pc EXCEPT ![r] = "getCachedResult"]
  /\ hist' = [hist EXCEPT ![r].acquired = TRUE, ![r].reads = @ + 1]
  /\ UNCHANGED <<usingArgs, setCalls, getResult, executor, pexpire, key, options, attempts, lock, store, actionResult, result, writer>>

\* redlock.using: an attempt finds the resource free and takes the lock;
\* the routine starts and sends cache.get.
Acquire(r) ==
  /\ pc[r] = "acquiring"
  /\ lock[key[r]] = {}
  /\ lock' = [lock EXCEPT ![key[r]] = {r}]
  /\ pc' = [pc EXCEPT ![r] = "getCachedResult"]
  /\ hist' = [hist EXCEPT ![r].acquired = TRUE, ![r].reads = @ + 1]
  /\ UNCHANGED <<usingArgs, setCalls, getResult, executor, pexpire, key, options, attempts, store, actionResult, result, writer>>

\* A using that retries whatever the number of attempts made.
AcquireRetryUnbounded(r) ==
  /\ pc[r] = "acquiring"
  /\ lock[key[r]] # {}
  /\ attempts' = [attempts EXCEPT ![r] =
                    IF @ <= MaxAttempts(options[r].timeout) THEN @ + 1 ELSE @]
  /\ UNCHANGED <<usingArgs, setCalls, getResult, executor, pexpire, pc, key, options, lock, store, actionResult, result, writer, hist>>

\* redlock.using: an attempt finds the lock held; there are attempts left,
\* so the run waits retryDelay and tries again.
AcquireRetry(r) ==
  /\ pc[r] = "acquiring"
  /\ lock[key[r]] # {}
  /\ attempts[r] + 1 < MaxAttempts(options[r].timeout)
  /\ attempts' = [attempts EXCEPT ![r] = @ + 1]
  /\ UNCHANGED <<usingArgs, setCalls, getResult, executor, pexpire, pc, key, options, lock, store, actionResult, result, writer, hist>>

\* A give-up that takes the lock holder down with it: the holder's routine
\* is abandoned and its run rejects.
AcquireTimeoutCancels(r) ==
  /\ pc[r] = "acquiring"
  /\ lock[key[r]] # {}
  /\ attempts[r] + 1 >= (options[r].timeout \div RetryDelay) + 1
  /\ attempts' = [attempts EXCEPT ![r] = @ + 1]
  /\ result' = [q \in Runs |->
                  IF q = r \/ q \in lock[key[r]]
                    THEN Rejected(IdempotentExecutorUnknownError(
                           "Failed to execute action idempotently", key[q], "ExecutionError"))
                    ELSE result[q]]
  /\ pc' = [q \in Runs |->
              IF q = r THEN "done" ELSE IF q \in lock[key[r]] THEN "release" ELSE pc[q]]
  /\ hist' = [hist EXCEPT ![r].gaveUpOn = lock[key[r]]]
  /\ UNCHANGED <<usingArgs, setCalls, getResult, executor, pexpire, key, options, lock, store, actionResult, writer>>

\* redlock.using: the last attempt finds the lock held; using rejects and the
\* catch of run() wraps the lock's error.
AcquireTimeout(r) ==
  /\ pc[r] = "acquiring"
  /\ lock[key[r]] # {}
  /\ attempts[r] + 1 >= MaxAttempts(options[r].timeout)
  /\ attempts' = [attempts EXCEPT ![r] = @ + 1]
  /\ result' = [result EXCEPT ![r] =
                  runCatch(key[r], Throw(MkError("ExecutionError", "exceeded retries")))]
  /\ pc' = [pc EXCEPT ![r] = "done"]
  /\ hist' = [hist EXCEPT ![r].gaveUpOn = lock[key[r]]]
  /\ UNCHANGED <<usingArgs, setCalls, getResult, executor, pexpire, key, options, lock, store, actionResult, writer>>

\* The routine settles: using releases the lock next.
Settle(r, routine, h) ==
  /\ result' = [result EXCEPT ![r] = runCatch(key[r], routine)]
  /\ pc' = [pc EXCEPT ![r] = "release"]
  /\ hist' = [hist EXCEPT ![r] = [h EXCEPT !.called = @ \cup routine.called]]

\* A getCachedResult that takes a failed cache.get for a miss.
GetCachedResultFailsAsMiss(r) ==
  /\ pc[r] = "getCachedResult"
  /\ pc' = [pc EXCEPT ![r] = "action"]
  /\ hist' = [hist EXCEPT ![r].storeFailed = TRUE, ![r].getFailed = TRUE,
                           ![r].invoked = @ + 1]
  /\ UNCHANGED result
  /\ UNCHANGED <<usingArgs, setCalls, getResult, executor, pexpire, key, options, attempts, lock, store, actionResult, writer>>

\* getCachedResult fails: cache.get threw, the routine throws a cache error.
GetCachedResultFails(r) ==
  /\ pc[r] = "getCachedResult"
  /\ Settle(r, Throw(IdempotentExecutorCacheError(
                        "Failed to get cached result", key[r], "RedisCacheError")),
             [hist[r] EXCEPT !.storeFailed = TRUE, !.getFailed = TRUE])
  /\ UNCHANGED <<usingArgs, setCalls, getResult, executor, pexpire, key, options, attempts, lock, store, actionResult, writer>>

\* getCachedResult returns: the routine replays the cached result, or calls
\* the action.
GetCachedResult(r) ==
  /\ pc[r] = "getCachedResult"
  /\ LET cachedResult == RedisCache_get(store[CacheKey(key[r])])
         next == replayOrExecute(key[r], options[r], cachedResult)
         passed == ~cachedResult.isNull /\ cachedResult.type = "error"
     IN IF next.kind = "action"
          THEN /\ pc' = [pc EXCEPT ![r] = "action"]
               /\ hist' = [hist EXCEPT ![r].invoked = @ + 1, ![r].ignored = passed]
               /\ UNCHANGED result
          ELSE Settle(r, next, [hist[r] EXCEPT !.replayed = writer[CacheKey(key[r])]])
  /\ UNCHANGED <<usingArgs, setCalls, getResult, executor, pexpire, key, options, attempts, lock, store, actionResult, writer>>

ThrewOf(outcome) ==
  IF outcome.kind = "rejectNonError" THEN outcome.value.s ELSE ""
\* A routine that calls throwError / returnResult before cacheResult: when
\* the callback throws, nothing is written.
ActionThenCallback(r, outcome) ==
  /\ pc[r] = "action"
  /\ LET ar == ActionResultOf(key[r], outcome)
         s == cacheResultSerialize(ar, options[r].valueSerializer,
                                   options[r].errorSerializer)
         d == dispatch(key[r], options[r], ar)
     IN /\ actionResult' = [actionResult EXCEPT ![r] = ar]
        /\ IF d.kind = "throw" /\ ~d.wrapper
             THEN Settle(r, d, [hist[r] EXCEPT !.threw = ThrewOf(outcome),
                                               !.rejected = outcome.error])
           ELSE IF s.ok
             THEN /\ pc' = [pc EXCEPT ![r] = "cacheResult"]
                  /\ hist' = [hist EXCEPT ![r].writes = @ + 1,
                                           ![r].threw = ThrewOf(outcome),
                                           ![r].rejected = outcome.error]
                  /\ UNCHANGED result
             ELSE Settle(r, Throw(IdempotentExecutorCriticalError(
                                    "Failed to set cached result", key[r], s.thrown)),
                         [hist[r] EXCEPT !.serializeFailed = TRUE,
                                         !.threw = ThrewOf(outcome),
                                         !.rejected = outcome.error])
  /\ UNCHANGED <<usingArgs, setCalls, getResult, executor, pexpire, key, options, attempts, lock, store, writer>>

\* A routine that, when a serializer throws, stores nothing and goes on to
\* return or throw what the action produced.
ActionUnsaved(r, outcome) ==
  /\ pc[r] = "action"
  /\ LET ar == ActionResultOf(key[r], outcome)
         s == cacheResultSerialize(ar, options[r].valueSerializer,
                                   options[r].errorSerializer)
     IN /\ actionResult' = [actionResult EXCEPT ![r] = ar]
        /\ IF s.ok
             THEN /\ pc' = [pc EXCEPT ![r] = "cacheResult"]
                  /\ hist' = [hist EXCEPT ![r].writes = @ + 1,
                                           ![r].threw = ThrewOf(outcome),
                                           ![r].rejected = outcome.error]
                  /\ UNCHANGED result
             ELSE Settle(r, dispatch(key[r], options[r], ar),
                         [hist[r] EXCEPT !.serializeFailed = TRUE,
                                         !.threw = ThrewOf(outcome),
                                         !.rejected = outcome.error])
  /\ UNCHANGED <<usingArgs, setCalls, getResult, executor, pexpire, key, options, attempts, lock, store, writer>>

\* The action settles; cacheResult serializes its result and sends cache.set,
\* or a serializer throws and cacheResult throws a critical error.
Action(r, outcome) ==
  /\ pc[r] = "action"
  /\ LET ar == ActionResultOf(key[r], outcome)
         s == cacheResultSerialize(ar, options[r].valueSerializer,
                                   options[r].errorSerializer)
     IN /\ actionResult' = [actionResult EXCEPT ![r] = ar]
        /\ IF s.ok
             THEN /\ pc' = [pc EXCEPT ![r] = "cacheResult"]
                  /\ hist' = [hist EXCEPT ![r].writes = @ + 1,
                                           ![r].threw = ThrewOf(outcome),
                                           ![r].rejected = outcome.error]
                  /\ UNCHANGED result
             ELSE Settle(r, Throw(IdempotentExecutorCriticalError(
                                    "Failed to set cached result", key[r], s.thrown)),
                         [hist[r] EXCEPT !.serializeFailed = TRUE,
                                         !.threw = ThrewOf(outcome),
                                         !.rejected = outcome.error])
  /\ UNCHANGED <<usingArgs, setCalls, getResult, executor, pexpire, key, options, attempts, lock, store, writer>>

\* A cacheResult that answers a failed cache.set by calling the action again.
CacheResultFailsReruns(r) ==
  /\ pc[r] = "cacheResult"
  /\ pc' = [pc EXCEPT ![r] = "action"]
  /\ hist' = [hist EXCEPT ![r].storeFailed = TRUE, ![r].invoked = @ + 1]
  /\ UNCHANGED result
  /\ UNCHANGED <<usingArgs, setCalls, getResult, executor, pexpire, key, options, attempts, lock, store, actionResult, writer>>

\* A cacheResult that deletes the record of the key when cache.set fails.
CacheResultFailsDrops(r) ==
  /\ pc[r] = "cacheResult"
  /\ store' = [store EXCEPT ![CacheKey(key[r])] = EmptyHash]
  /\ Settle(r, Throw(IdempotentExecutorCriticalError(
                        "Failed to set cached result", key[r], "RedisCacheError")),
             [hist[r] EXCEPT !.storeFailed = TRUE])
  /\ UNCHANGED <<usingArgs, setCalls, getResult, executor, pexpire, key, options, attempts, lock, actionResult, writer>>

\* A cache.set that fails after the record was written.
CacheResultFailsAfterWrite(r) ==
  /\ pc[r] = "cacheResult"
  /\ LET s == cacheResultSerialize(actionResult[r], options[r].valueSerializer,
                                   options[r].errorSerializer)
     IN store' = [store EXCEPT ![CacheKey(key[r])] = RedisCache_set(@, s.out)]
  /\ Settle(r, Throw(IdempotentExecutorCriticalError(
                        "Failed to set cached result", key[r], "RedisCacheError")),
             [hist[r] EXCEPT !.storeFailed = TRUE])
  /\ UNCHANGED <<usingArgs, setCalls, getResult, executor, pexpire, key, options, attempts, lock, actionResult, writer>>

\* cache.set fails: cacheResult throws a critical error.
CacheResultFails(r) ==
  /\ pc[r] = "cacheResult"
  /\ Settle(r, Throw(IdempotentExecutorCriticalError(
                        "Failed to set cached result", key[r], "RedisCacheError")),
             [hist[r] EXCEPT !.storeFailed = TRUE])
  /\ UNCHANGED <<usingArgs, setCalls, getResult, executor, pexpire, key, options, attempts, lock, store, actionResult, writer>>

\* cache.set succeeds: the result is stored, then thrown or returned.
CacheResult(r) ==
  /\ pc[r] = "cacheResult"
  /\ LET s == cacheResultSerialize(actionResult[r], options[r].valueSerializer,
                                   options[r].errorSerializer)
     IN store' = [store EXCEPT ![CacheKey(key[r])] = RedisCache_set(@, s.out)]
  /\ writer' = [writer EXCEPT ![CacheKey(key[r])] = {r}]
  /\ Settle(r, dispatch(key[r], options[r], actionResult[r]), hist[r])
  /\ UNCHANGED <<usingArgs, setCalls, getResult, executor, pexpire, key, options, attempts, lock, actionResult>>

\* A using that releases the lock only when its routine returned.
ReleaseOnSuccess(r) ==
  /\ pc[r] = "release"
  /\ lock' = IF result[r].kind = "resolved"
               THEN [lock EXCEPT ![key[r]] = @ \ {r}] ELSE lock
  /\ pc' = [pc EXCEPT ![r] = "done"]
  /\ UNCHANGED <<usingArgs, setCalls, getResult, executor, pexpire, key, options, attempts, store, actionResult, result, writer, hist>>

\* redlock.using releases the lock and run() settles.
Release(r) ==
  /\ pc[r] = "release"
  /\ lock' = [lock EXCEPT ![key[r]] = @ \ {r}]
  /\ pc' = [pc EXCEPT ![r] = "done"]
  /\ UNCHANGED <<usingArgs, setCalls, getResult, executor, pexpire, key, options, attempts, store, actionResult, result, writer, hist>>

\* Up to NumRuns calls of run() on one key, by callers that supply no
\* callback and no serializer.
Next ==
  \E r \in Runs :
    \/ \E o \in BasicOptions : Start(r, "key1", o)
    \/ Acquire(r)
    \/ AcquireRetry(r)
    \/ AcquireTimeout(r)
    \/ GetCachedResultFails(r)
    \/ GetCachedResult(r)
    \/ \E outcome \in ActionOutcomes : Action(r, outcome)
    \/ CacheResultFails(r)
    \/ CacheResult(r)
    \/ Release(r)

Spec == Init /\ [][Next]_vars

\* What run r does once it was called: every step of its is the
\* continuation of a promise that the event loop runs when the lock client,
\* the store or the action has answered.
RunStep(r) ==
  \/ Acquire(r)
  \/ AcquireRetry(r)
  \/ AcquireTimeout(r)
  \/ GetCachedResultFails(r)
  \/ GetCachedResult(r)
  \/ \E outcome \in ActionOutcomes : Action(r, outcome)
  \/ CacheResultFails(r)
  \/ CacheResult(r)
  \/ Release(r)

\* Up to NumRuns calls of run() on one key; the first NumOptionRuns by
\* callers that may ignore errors, the others with default options.
NextLive ==
  \E r \in Runs :
    \/ \E o \in BasicOptions :
         (r <= NumOptionRuns \/ IsDefault(o)) /\ Start(r, "key1", o)
    \/ RunStep(r)

\* Where the lock client, the store, the action and the callbacks all
\* answer: a run that can take a step takes one.
SpecLive == Init /\ [][NextLive]_vars /\ \A r \in Runs : WF_vars(RunStep(r))

\* Up to NumOptionRuns calls of run() on one key, with any options.
NextOptions ==
  \E r \in Runs :
    \/ \E o \in RunOptions : r <= NumOptionRuns /\ Start(r, "key1", o)
    \/ Acquire(r)
    \/ AcquireRetry(r)
    \/ AcquireTimeout(r)
    \/ GetCachedResultFails(r)
    \/ GetCachedResult(r)
    \/ \E outcome \in ActionOutcomes : Action(r, outcome)
    \/ CacheResultFails(r)
    \/ CacheResult(r)
    \/ Release(r)

SpecOptions == Init /\ [][NextOptions]_vars

(***************************************************************************)
(* The store is shared: a record of a key may have been put there by       *)
(* another writer (another version, another serializer), as the tests do   *)
(* through hgetall.  Two calls of the executor over such a store.          *)
(***************************************************************************)
ForeignRecords ==
  {[type |-> JsString("value"), error |-> JsUndefined, value |-> JsString(".")],
   [type |-> JsString("error"), error |-> JsString("."), value |-> JsUndefined],
   [type |-> JsString("error"), error |-> JsString(Quote("v1")), value |-> JsUndefined]}
ForeignWrite(k, h) ==
  /\ store[CacheKey(k)] # h
  /\ store' = [store EXCEPT ![CacheKey(k)] = h]
  /\ writer' = [writer EXCEPT ![CacheKey(k)] = {}]
  /\ UNCHANGED <<usingArgs, setCalls, getResult, executor, pexpire, pc, key, options, attempts, lock, actionResult, result, hist>>

NextRecords ==
  \/ \E h \in ForeignRecords : ForeignWrite("key1", h)
  \/ \E r \in Runs :
       \/ \E o \in BasicOptions : r <= NumOptionRuns /\ Start(r, "key1", o)
       \/ Acquire(r)
       \/ AcquireRetry(r)
       \/ AcquireTimeout(r)
       \/ GetCachedResultFails(r)
       \/ GetCachedResult(r)
       \/ \E outcome \in ActionOutcomes : Action(r, outcome)
       \/ CacheResultFails(r)
       \/ CacheResult(r)
       \/ Release(r)

SpecRecords == Init /\ [][NextRecords]_vars

(***************************************************************************)
(* RedisCache on its own: a user calls set and get on the cache keys.      *)
(***************************************************************************)
\* The serialized texts handed to set: none, a JSON text, one that is none.
Payloads == {"", Quote("v1"), "."}
\* The values of type CachedResult.
CachedResults ==
  {ErrorResult(JsString(t)) : t \in Payloads}
    \cup {ValueResult(JsString(t)) : t \in Payloads}
    \cup {ValueResult(JsUndefined)}
\* The calls of set on one key in a behaviour.
MaxSets == 2

\* cache.set(c, cachedResult) returns.
CacheSet(c, cachedResult) ==
  /\ Len(setCalls[c]) < MaxSets
  /\ store' = [store EXCEPT ![c] = RedisCache_set(@, cachedResult)]
  /\ setCalls' = [setCalls EXCEPT ![c] = Append(@, cachedResult)]
  /\ getResult' = [getResult EXCEPT ![c] = NotRead]
  /\ UNCHANGED <<usingArgs, executor, pexpire, pc, key, options, attempts, lock,
                 actionResult, result, writer, hist>>

\* cache.get(c) returns.
CacheGet(c) ==
  /\ getResult[c] = NotRead
  /\ getResult' = [getResult EXCEPT ![c] = RedisCache_get(store[c])]
  /\ UNCHANGED <<usingArgs, executor, pexpire, pc, key, options, attempts, lock, store,
                 actionResult, result, writer, hist, setCalls>>

NextCache ==
  \E c \in CacheKeys :
    \/ \E cachedResult \in CachedResults : CacheSet(c, cachedResult)
    \/ CacheGet(c)

SpecCache == Init /\ [][NextCache]_vars

(***************************************************************************)
(* The lock settings on their own: run() as far as its call of             *)
(* redlock.using, for timeouts that are not whole multiples of the delay.  *)
(***************************************************************************)
\* Valid timeouts in milliseconds, 399.1 among them.
SettingsTimeouts == {Ms(1), Ms(200), Ms(300), Ms(399), Ms(400), Tenths(3991)}

\* run(key, action, {timeout}) computes the arguments of redlock.using.
UsingWith(r, timeout) ==
  /\ usingArgs[r] = NoUsing
  /\ usingArgs' = [usingArgs EXCEPT ![r] = UsingArgs(timeout)]
  /\ UNCHANGED <<setCalls, getResult, executor, pexpire, pc, key, options, attempts,
                 lock, store, actionResult, result, writer, hist>>

NextSettings == \E r \in Runs : \E timeout \in SettingsTimeouts : UsingWith(r, timeout)

SpecSettings == Init /\ [][NextSettings]_vars

(***************************************************************************)
(* Calls that may supply replay callbacks, over a store that may hold       *)
(* records of another writer.                                              *)
(***************************************************************************)
ReplayOptions ==
  UNION {
    {DefaultOptions(t), [DefaultOptions(t) EXCEPT !.ignoreErrors = TRUE]}
    \cup {[DefaultOptions(t) EXCEPT !.onSuccessReplay = c] : c \in {"returns", "throws"}}
    \cup {[DefaultOptions(t) EXCEPT !.onErrorReplay = c] : c \in {"returns", "throws"}}
    : t \in Timeouts}

\* The records of another writer: those that do not parse, and the record
\* of the value "v1" as JSONSerializer stores it.
ReplayRecords ==
  ForeignRecords
    \cup {[type |-> JsString("value"), error |-> JsUndefined,
           value |-> JsString(Quote("v1"))]}

NextReplays ==
  \/ \E h \in ReplayRecords : ForeignWrite("key1", h)
  \/ \E r \in Runs :
       \/ \E o \in ReplayOptions : r <= NumOptionRuns /\ Start(r, "key1", o)
       \/ Acquire(r)
       \/ AcquireRetry(r)
       \/ AcquireTimeout(r)
       \/ GetCachedResultFails(r)
       \/ GetCachedResult(r)
       \/ \E outcome \in ActionOutcomes : Action(r, outcome)
       \/ CacheResultFails(r)
       \/ CacheResult(r)
       \/ Release(r)

SpecReplays == Init /\ [][NextReplays]_vars

(***************************************************************************)
(* Calls with default options over the two keys.                           *)
(***************************************************************************)
NextKeys ==
  \E r \in Runs :
    \/ \E k \in Keys, t \in Timeouts : Start(r, k, DefaultOptions(t))
    \/ Acquire(r)
    \/ AcquireRetry(r)
    \/ AcquireTimeout(r)
    \/ GetCachedResultFails(r)
    \/ GetCachedResult(r)
    \/ \E outcome \in ActionOutcomes : Action(r, outcome)
    \/ CacheResultFails(r)
    \/ CacheResult(r)
    \/ Release(r)

SpecKeys == Init /\ [][NextKeys]_vars

(***************************************************************************)
(* Calls with default options on executors constructed with any options.   *)
(* constructor(redis) takes the client only: what else the caller hands    *)
(* to it is dropped.                                                       *)
(***************************************************************************)
NextExecutors ==
  \E r \in Runs :
    \/ \E e \in ExecutorOptions, t \in Timeouts :
         r <= NumOptionRuns /\ StartOn(r, e, "key1", DefaultOptions(t))
    \/ Acquire(r)
    \/ AcquireRetry(r)
    \/ AcquireTimeout(r)
    \/ GetCachedResultFails(r)
    \/ GetCachedResult(r)
    \/ \E outcome \in ActionOutcomes : Action(r, outcome)
    \/ CacheResultFails(r)
    \/ CacheResult(r)
    \/ Release(r)

SpecExecutors == Init /\ [][NextExecutors]_vars

(***************************************************************************)
(* Calls with any timeout.  run() hands the caller's timeout to            *)
(* redlock.using as it is; what the lock client does with a duration that  *)
(* is not positive is left open: it refuses it (using throws), or it goes  *)
(* on to its attempts.                                                     *)
(***************************************************************************)
InvalidTimeouts == {0, -1}
IsValidTimeout(timeout) == timeout > 0
UsingRejects(r) ==
  /\ pc[r] = "acquiring"
  /\ attempts[r] = 0
  /\ ~IsValidTimeout(options[r].timeout)
  /\ result' = [result EXCEPT ![r] =
                  runCatch(key[r], Throw(MkError("Error", "invalid duration")))]
  /\ pc' = [pc EXCEPT ![r] = "done"]
  /\ UNCHANGED <<usingArgs, setCalls, getResult, executor, pexpire, key, options, attempts, lock, store, actionResult, writer, hist>>

NextTimeouts ==
  \E r \in Runs :
    \/ \E t \in Timeouts \cup InvalidTimeouts :
         r <= NumOptionRuns /\ Start(r, "key1", DefaultOptions(t))
    \/ UsingRejects(r)
    \/ Acquire(r)
    \/ AcquireRetry(r)
    \/ AcquireTimeout(r)
    \/ GetCachedResultFails(r)
    \/ GetCachedResult(r)
    \/ \E outcome \in ActionOutcomes : Action(r, outcome)
    \/ CacheResultFails(r)
    \/ CacheResult(r)
    \/ Release(r)

SpecTimeouts == Init /\ [][NextTimeouts]_vars

TypeOK ==
  /\ pc \in [Runs -> {"idle", "acquiring", "getCachedResult", "action",
                       "cacheResult", "release", "done"}]
  /\ key \in [Runs -> Keys]
  /\ options \in [Runs -> RunOptions \cup {DefaultOptions(t) : t \in InvalidTimeouts}]
  /\ \A k \in Keys : Cardinality(lock[k]) <= 1
  /\ executor \in [Runs -> ExecutorOptions]

(***************************************************************************)
(* Vocabulary of the properties.                                           *)
(***************************************************************************)
Started(r) == pc[r] # "idle"
\* run() of r has settled and its lock, if it had one, is released.
Finished(r) == pc[r] = "done"
\* Every call issued so far has settled, and there is one.
Quiescent ==
  /\ \A r \in Runs : pc[r] \in {"idle", "done"}
  /\ \E r \in Runs : Finished(r)
\* All calls were issued before any of them settled.
AllConcurrent == \A r \in Runs : hist[r].startedAfter = {}

InvokedUpTo[n \in 0..NumRuns] ==
  IF n = 0 THEN 0 ELSE InvokedUpTo[n - 1] + hist[n].invoked
\* Calls of the action, over all runs.
TotalInvoked == InvokedUpTo[NumRuns]

NoStoreFailure == \A r \in Runs : ~hist[r].storeFailed
NoSerializeFailure == \A r \in Runs : ~hist[r].serializeFailed
\* The run was told to ignore errors and did: it passed over a stored error
\* or its own action failed.
IgnoredAnError(r) ==
  options[r].ignoreErrors /\ (hist[r].ignored \/ actionResult[r].isError)
NoErrorIgnored == \A r \in Runs : ~IgnoredAnError(r)

\* Two settlements a caller cannot tell apart by kind, value, and the name
\* and message of the error.
SameOutcome(a, b) ==
  /\ a.kind = b.kind
  /\ a.value = b.value
  /\ a.error.name = b.error.name
  /\ a.error.message = b.error.message

(***************************************************************************)
(* C1 - exactly one invocation.                                            *)
(***************************************************************************)
\* C1, as stated: once all the concurrent calls of run(K, action) have
\* settled, in an interleaving where no store operation failed and no error
\* was ignored, the action has been invoked exactly once in total.
C1_AsStated ==
  (Quiescent /\ AllConcurrent /\ NoStoreFailure /\ NoErrorIgnored)
    => TotalInvoked = 1

\* C1, amended: once all the calls of run(K, action), concurrent or not,
\* have settled, in an interleaving where no store operation failed, no
\* serializer threw while the outcome was persisted and no error was
\* ignored, the action has been invoked exactly once in total.
C1_ExactlyOnce ==
  (Quiescent /\ NoStoreFailure /\ NoSerializeFailure /\ NoErrorIgnored)
    => TotalInvoked = 1

\* Three concurrent calls have settled without a failure, two of them with
\* the lock, and the action ran once.
C1_Witness ==
  /\ \A r \in Runs : Finished(r)
  /\ AllConcurrent
  /\ NoStoreFailure /\ NoSerializeFailure /\ NoErrorIgnored
  /\ Cardinality({r \in Runs : hist[r].acquired}) >= 2
  /\ TotalInvoked = 1

(***************************************************************************)
(* C2 - concurrent callers get one outcome.                                *)
(***************************************************************************)
AllDefaultAndAcquired ==
  \A r \in Runs : Started(r) => IsDefault(options[r]) /\ hist[r].acquired
\* The action of some run resolved / rejected.
SomeActionResolved ==
  \E r \in Runs : hist[r].invoked > 0 /\ pc[r] # "action" /\ ~actionResult[r].isError
SomeActionRejected ==
  \E r \in Runs : hist[r].invoked > 0 /\ pc[r] # "action" /\ actionResult[r].isError

\* C2, as stated: when the concurrent calls, all with default options and
\* all having acquired the lock, have settled, they all resolved with the
\* identical value if the action resolved, or all rejected with the
\* identical error if it rejected.
C2_AsStated ==
  (Quiescent /\ AllConcurrent /\ AllDefaultAndAcquired) =>
    /\ \A r, q \in Runs : (Started(r) /\ Started(q)) => result[r] = result[q]
    /\ SomeActionResolved => \A r \in Runs : Started(r) => result[r].kind = "resolved"
    /\ SomeActionRejected => \A r \in Runs : Started(r) => result[r].kind = "rejected"

\* C2, amended: when the calls, all with default options and all having
\* acquired the lock, have settled and no store operation failed and no
\* serializer threw, they all resolved with the identical value if the
\* action resolved, or all rejected with an error of the same name and
\* message if it rejected.
C2_SameOutcome ==
  (Quiescent /\ AllDefaultAndAcquired /\ NoStoreFailure /\ NoSerializeFailure) =>
    /\ \A r, q \in Runs : (Started(r) /\ Started(q)) => SameOutcome(result[r], result[q])
    /\ SomeActionResolved => \A r \in Runs : Started(r) => result[r].kind = "resolved"
    /\ SomeActionRejected => \A r \in Runs : Started(r) => result[r].kind = "rejected"

\* Three concurrent calls with default options all got the lock and all
\* rejected with the error of the one action that ran, an instance of a
\* subclass of Error.
C2_Witness ==
  /\ \A r \in Runs : Finished(r)
  /\ AllConcurrent
  /\ AllDefaultAndAcquired /\ NoStoreFailure /\ NoSerializeFailure
  /\ TotalInvoked = 1
  /\ \A r \in Runs : result[r].kind = "rejected" /\ result[r].error.name = "CustomError"

(***************************************************************************)
(* C3 - two calls in sequence.                                             *)
(***************************************************************************)
\* q was called after r had settled.
After(r, q) == r \in hist[q].startedAfter
\* q got the lock, its read of the store did not fail, and it has settled.
ReadAndFinished(q) ==
  Finished(q) /\ hist[q].acquired /\ ~hist[q].storeFailed

\* C3: when run(K, action) ran the action and returned its value, a call of
\* run(K, action) made after it settled does not invoke the action and
\* returns the first call's value.
C3_SecondReplays ==
  \A r, q \in Runs :
    (/\ Finished(r) /\ hist[r].invoked = 1 /\ result[r].kind = "resolved"
     /\ After(r, q) /\ ReadAndFinished(q))
      => hist[q].invoked = 0 /\ result[q] = result[r]

\* The first call returned "v1" from its action; the second, called after
\* it, returned "v1" without calling the action.
C3_Witness ==
  /\ Finished(1) /\ hist[1].invoked = 1 /\ result[1] = Resolved(Str("v1"))
  /\ After(1, 2) /\ ReadAndFinished(2)
  /\ hist[2].invoked = 0 /\ result[2] = Resolved(Str("v1"))

(***************************************************************************)
(* C4 - a stored error is replayed.                                        *)
(***************************************************************************)
NoneIgnores == \A r \in Runs : ~options[r].ignoreErrors
\* The action of r rejected and cacheResult stored its error.
StoredItsError(r) ==
  /\ Finished(r) /\ hist[r].invoked = 1 /\ actionResult[r].isError
  /\ ~hist[r].storeFailed /\ ~hist[r].serializeFailed
RejectedLike(res, e) ==
  /\ res.kind = "rejected"
  /\ res.error.name = e.name
  /\ res.error.message = e.message

\* C4: when no caller ignores errors and the action of a run rejected, the
\* error is stored, the run rejects with it, and every run of the key called
\* after it rejects with an error of the same name and message without
\* invoking the action.
C4_ErrorReplayed ==
  \A r \in Runs :
    (NoneIgnores /\ StoredItsError(r)) =>
      /\ RejectedLike(result[r], actionResult[r].error)
      /\ RedisCache_get(store[CacheKey(key[r])])
           = ErrorResult(DefaultErrorSerializer_serialize(actionResult[r].error).out)
      /\ \A q \in Runs :
           (After(r, q) /\ ReadAndFinished(q)) =>
             /\ hist[q].invoked = 0
             /\ RejectedLike(result[q], actionResult[r].error)

\* The action of the first call rejected with Error("action failed"); the
\* two calls made after it rejected with it and the action ran once.
C4_Witness ==
  /\ NoneIgnores /\ StoredItsError(1)
  /\ actionResult[1].error = MkError("Error", "action failed")
  /\ After(1, 2) /\ ReadAndFinished(2) /\ After(1, 3) /\ ReadAndFinished(3)
  /\ RejectedLike(result[2], MkError("Error", "action failed"))
  /\ RejectedLike(result[3], MkError("Error", "action failed"))
  /\ TotalInvoked = 1

(***************************************************************************)
(* C5 - a failed store write.                                              *)
(***************************************************************************)
\* cache.set of r was sent and failed.
WriteFailed(r) == hist[r].storeFailed /\ hist[r].writes > 0

\* C5: a run whose store write failed rejects with a critical error and no
\* other kind, whatever its action did.
C5_WriteFailureIsCritical ==
  \A r \in Runs :
    WriteFailed(r) =>
      /\ result[r].kind = "rejected"
      /\ result[r].error.cls = "IdempotentExecutorCriticalError"
      /\ result[r].error.name = "IdempotentExecutorCriticalError"

\* The action resolved with "v1", the write failed and the run has rejected
\* with the critical error.
C5_Witness ==
  \E r \in Runs :
    /\ Finished(r) /\ WriteFailed(r)
    /\ ~actionResult[r].isError /\ actionResult[r].value = Str("v1")
    /\ result[r].error.cls = "IdempotentExecutorCriticalError"

(***************************************************************************)
(* C6 - the lock is released.                                              *)
(***************************************************************************)
\* C6: a run that got the lock and has finished, however it settled, no
\* longer holds the lock; when every run of a key has finished the lock of
\* the key is free for the next.
C6_LockReleased ==
  /\ \A r \in Runs : (Finished(r) /\ hist[r].acquired) => r \notin lock[key[r]]
  /\ \A k \in Keys :
       (\A r \in Runs : key[r] = k => pc[r] \in {"idle", "done"}) => lock[k] = {}

\* A run rejected with a cache error under the lock, and a run called after
\* it got the lock.
C6_Witness ==
  \E r, q \in Runs :
    /\ Finished(r) /\ hist[r].acquired
    /\ result[r].error.cls = "IdempotentExecutorCacheError"
    /\ After(r, q) /\ hist[q].acquired

(***************************************************************************)
(* C7 - the executing caller and the replaying callers.                    *)
(***************************************************************************)
\* q settled by replaying the record that w stored.
Replays(q, w) ==
  /\ q # w
  /\ pc[q] \in {"release", "done"} /\ pc[w] \in {"release", "done"}
  /\ hist[q].replayed = {w}
\* The caller supplied no callback and no serializer.
Plain(o) == o \in BasicOptions

\* C7, as stated: whatever the options of the two runs, a run that replays
\* the record another run stored settles as that run did: with the same
\* value, or with an error of the same name and message.
C7_AsStated ==
  \A w, q \in Runs : Replays(q, w) => SameOutcome(result[q], result[w])

\* C7, amended: when neither run was given a callback or a serializer, a run
\* that replays the record another run stored settles as that run did: with
\* the same value, or with an error of the same name and message.
C7_PlainSameOutcome ==
  \A w, q \in Runs :
    (Replays(q, w) /\ Plain(options[w]) /\ Plain(options[q]))
      => SameOutcome(result[q], result[w])

\* With default options, a run replayed the error another run stored, an
\* instance of a subclass of Error, and rejected with a plain Error of its
\* name and message.
C7_Witness ==
  \E w, q \in Runs :
    /\ Replays(q, w) /\ Finished(q)
    /\ Plain(options[w]) /\ Plain(options[q])
    /\ result[w] = Rejected(MkError("CustomError", "boom"))
    /\ result[q].error.cls = "Error" /\ result[q].error.name = "CustomError"

(***************************************************************************)
(* C8 - ignored errors.                                                    *)
(***************************************************************************)
\* r was told to ignore errors, its action rejected, and no store operation
\* of r failed.
IgnoredItsError(r) ==
  /\ Finished(r) /\ options[r].ignoreErrors
  /\ hist[r].invoked = 1 /\ actionResult[r].isError
  /\ ~hist[r].storeFailed /\ ~hist[r].serializeFailed

\* C8, as stated: when the error of a run's action is ignored, the run
\* rejects with that error and every run of the key called after it invokes
\* the action again.
C8_AsStated ==
  \A r \in Runs :
    IgnoredItsError(r) =>
      /\ RejectedLike(result[r], actionResult[r].error)
      /\ \A q \in Runs : (After(r, q) /\ ReadAndFinished(q)) => hist[q].invoked = 1

(***************************************************************************)
(* C9 - a run that does not get the lock.                                  *)
(***************************************************************************)
\* C9: a run that has given up acquiring the lock rejects with an unknown
\* error, and has neither invoked the action nor read or written the store.
C9_NoLockNoWork ==
  \A r \in Runs :
    (Finished(r) /\ ~hist[r].acquired) =>
      /\ result[r].kind = "rejected"
      /\ result[r].error.cls = "IdempotentExecutorUnknownError"
      /\ hist[r].invoked = 0 /\ hist[r].reads = 0 /\ hist[r].writes = 0
      /\ actionResult[r] = NoActionResult

\* A run has used up its attempts while another held the lock.
C9_Witness ==
  \E r \in Runs :
    /\ Finished(r) /\ ~hist[r].acquired
    /\ attempts[r] = MaxAttempts(options[r].timeout)
    /\ hist[r].gaveUpOn # {}
    /\ result[r].error.cls = "IdempotentExecutorUnknownError"

(***************************************************************************)
(* C10 - a waiter that gives up.                                           *)
(***************************************************************************)
\* x gave up while w held the lock, and w went on to call the action and
\* store its result.
WinnerOf(w, x) ==
  /\ w \in hist[x].gaveUpOn
  /\ Finished(w) /\ hist[w].invoked = 1
  /\ ~hist[w].storeFailed /\ ~hist[w].serializeFailed

InRoutine(r) == pc[r] \in {"getCachedResult", "action", "cacheResult", "release"}

StoredNonError(r, v) == StoredItsError(r) /\ hist[r].threw = v.s
IsNonErrorWrapper(res, k, v) ==
  res = Rejected(IdempotentExecutorNonErrorWrapperError("Non-error thrown", k, v.s))

\* C12, as stated: when the action of a run rejects with a value v that is
\* no Error, the run rejects with a NonErrorWrapperError whose cause is v,
\* the failure is stored, and a run of the key called after it rejects with
\* a NonErrorWrapperError whose cause is v without invoking the action.
C12_AsStated ==
  \A r \in Runs : \A v \in ActionNonErrors :
    (NoneIgnores /\ StoredNonError(r, v)) =>
      /\ IsNonErrorWrapper(result[r], key[r], v)
      /\ RedisCache_get(store[CacheKey(key[r])]).type = "error"
      /\ \A q \in Runs :
           (After(r, q) /\ ReadAndFinished(q)) =>
             hist[q].invoked = 0 /\ IsNonErrorWrapper(result[q], key[q], v)

\* C12, amended: when the action of a run rejects with a value v that is no
\* Error, the run rejects with a NonErrorWrapperError whose cause is v, the
\* failure is stored, and a run of the key called after it rejects, without
\* invoking the action, with a plain Error that has the wrapper's name and
\* message and no cause.
C12_NonErrorReplayed ==
  \A r \in Runs : \A v \in ActionNonErrors :
    (NoneIgnores /\ StoredNonError(r, v)) =>
      /\ IsNonErrorWrapper(result[r], key[r], v)
      /\ RedisCache_get(store[CacheKey(key[r])]).type = "error"
      /\ \A q \in Runs :
           (After(r, q) /\ ReadAndFinished(q)) =>
             /\ hist[q].invoked = 0
             /\ result[q].kind = "rejected"
             /\ result[q].error.cls = "Error"
             /\ result[q].error.name = "IdempotentExecutorNonErrorWrapperError"
             /\ result[q].error.message = "Non-error thrown"
             /\ result[q].error.cause = ""

\* The action of the first call threw 42; the second call, made after it,
\* has rejected with the replayed error and the action ran once.
C12_Witness ==
  /\ NoneIgnores /\ StoredNonError(1, Num("42"))
  /\ IsNonErrorWrapper(result[1], "key1", Num("42"))
  /\ After(1, 2) /\ ReadAndFinished(2)
  /\ result[2].error.name = "IdempotentExecutorNonErrorWrapperError"
  /\ TotalInvoked = 1

(***************************************************************************)
(* C13 - the read of the stored record fails.                              *)
(***************************************************************************)
\* C13: a run whose read of the record failed rejects with a cache error
\* that carries the idempotency key and the store's error as cause; the run
\* has not invoked the action, has written nothing, and does not hold the
\* lock once it has settled.
C13_ReadFailureIsCacheError ==
  \A r \in Runs :
    hist[r].getFailed =>
      /\ pc[r] \in {"release", "done"}
      /\ result[r] = Rejected(IdempotentExecutorCacheError(
                                "Failed to get cached result", key[r],
                                "RedisCacheError"))
      /\ hist[r].invoked = 0
      /\ hist[r].writes = 0
      /\ r \notin writer[CacheKey(key[r])]
      /\ Finished(r) => r \notin lock[key[r]]

\* The read of one call failed and the call has settled; a call made after
\* it got the lock and ran the action.
C13_Witness ==
  \E r, q \in Runs :
    /\ Finished(r) /\ hist[r].getFailed
    /\ result[r].error.cls = "IdempotentExecutorCacheError"
    /\ After(r, q) /\ hist[q].invoked = 1 /\ Finished(q)
    /\ store[CacheKey(key[r])] # EmptyHash

(***************************************************************************)
(* C14 - a record that does not parse.                                     *)
(***************************************************************************)
\* What the deserializer of the caller throws on the record, "" if the
\* record parses.
ParseFailure(o, cachedResult) ==
  IF cachedResult.isNull THEN ""
  ELSE IF cachedResult.type = "error"
    THEN DefaultErrorSerializer_deserialize(TextOf(cachedResult.error)).thrown
  ELSE IF cachedResult.value.def
    THEN Deserialize(o.valueSerializer, TextOf(cachedResult.value)).thrown
  ELSE ""
ParseMessage(cachedResult) ==
  IF cachedResult.type = "error" THEN "Failed to parse cached error"
                                 ELSE "Failed to parse cached value"
\* r has read the record in this step
ReadsRecord(r) ==
  /\ pc[r] = "getCachedResult" /\ pc'[r] # "getCachedResult"
  /\ ~hist'[r].getFailed

StoredUndefined(r) ==
  /\ Finished(r) /\ hist[r].invoked = 1
  /\ ~actionResult[r].isError /\ actionResult[r].value = Undef
  /\ ~hist[r].storeFailed /\ ~hist[r].serializeFailed

TimeoutRangeError ==
  MkError("RangeError", "Timeout must be a positive finite number in milliseconds")

\* C16, as stated: a run called with a timeout that is zero or negative
\* settles with a RangeError, and it has not acquired the lock, read or
\* written the store, or invoked the action.
C16_AsStated ==
  \A r \in Runs :
    (Finished(r) /\ ~IsValidTimeout(options[r].timeout)) =>
      /\ result[r] = Rejected(TimeoutRangeError)
      /\ ~hist[r].acquired
      /\ hist[r].reads = 0 /\ hist[r].writes = 0
      /\ hist[r].invoked = 0

(***************************************************************************)
(* C17 - two idempotency keys.                                             *)
(***************************************************************************)
SameKey(r, q) == Started(r) /\ Started(q) /\ key[r] = key[q]
\* r got the lock and its read of the store has returned.
HasRead(r) ==
  /\ pc[r] \in {"action", "cacheResult", "release", "done"}
  /\ hist[r].acquired /\ ~hist[r].getFailed

\* C17: runs of distinct keys do not meet.  A run that has read the store
\* before any run of its own key wrote has invoked its action once, whatever
\* runs of another key did; a run replays records of runs of its own key
\* only; a lock is held by a run of its key only, a run gives up on a
\* holder of its own key only, and a run that waits for the lock of its key
\* has a run of its own key inside the routine.
C17_KeysIndependent ==
  \A r \in Runs :
    /\ (HasRead(r) /\ \A q \in Runs \ {r} : SameKey(q, r) => hist[q].writes = 0)
         => hist[r].invoked = 1
    /\ \A w \in hist[r].replayed : SameKey(w, r)
    /\ \A w \in hist[r].gaveUpOn : SameKey(w, r)
    /\ Started(r) => \A h \in lock[key[r]] : SameKey(h, r)
    /\ (pc[r] = "acquiring" /\ lock[key[r]] # {})
         => \E q \in Runs \ {r} : SameKey(q, r) /\ InRoutine(q)

\* The first two calls, of different keys, are both inside their action,
\* while a third call waits for the lock of the first call's key.
C17_Witness ==
  /\ pc[1] = "action" /\ pc[2] = "action" /\ key[1] # key[2]
  /\ pc[3] = "acquiring" /\ key[3] = key[1] /\ attempts[3] > 0
  /\ store[CacheKey(key[1])] = EmptyHash /\ store[CacheKey(key[2])] = EmptyHash

(***************************************************************************)
(* C18 - executors with different namespaces.                              *)
(***************************************************************************)
\* r and q run the same key on executors of the same namespace.
SameRecord(r, q) ==
  SameKey(r, q) /\ executor[r].namespace = executor[q].namespace

\* C18, as stated: runs of one key on executors of different namespaces do
\* not meet.  A run that has read the store before any run of its key and
\* namespace wrote has invoked its action once; a run replays, waits for and
\* gives up on runs of its own key and namespace only; and the record a run
\* stored is not written by a run of another namespace.
C18_AsStated ==
  \A r \in Runs :
    /\ (HasRead(r) /\ \A q \in Runs \ {r} : SameRecord(q, r) => hist[q].writes = 0)
         => hist[r].invoked = 1
    /\ \A w \in hist[r].replayed : SameRecord(w, r)
    /\ \A w \in hist[r].gaveUpOn : SameRecord(w, r)
    /\ (pc[r] = "acquiring" /\ lock[key[r]] # {})
         => \E q \in Runs \ {r} : SameRecord(q, r) /\ InRoutine(q)
    /\ (Finished(r) /\ hist[r].writes = 1 /\ ~hist[r].storeFailed)
         => \A w \in writer[CacheKey(key[r])] : SameRecord(w, r)

(***************************************************************************)
(* C19 - the expiry of the stored records.                                 *)
(***************************************************************************)
\* ttlMs rounded up to a whole millisecond
CeilMs(tenths) == (tenths + TenthsPerMs - 1) \div TenthsPerMs
\* cache.set of r has returned
HasStored(r) ==
  /\ pc[r] \in {"release", "done"}
  /\ hist[r].writes = 1 /\ ~hist[r].storeFailed

\* C19, as stated: the record stored by a run on an executor constructed
\* with ttlMs has been given the expiry of ttlMs rounded up to a whole
\* millisecond, and when no run is on an executor with ttlMs no expiry is
\* sent for any record.
C19_AsStated ==
  /\ \A r \in Runs :
       (HasStored(r) /\ executor[r].ttlMs # NoTtl /\ IsValidTtl(executor[r].ttlMs))
         => CeilMs(executor[r].ttlMs[1]) \in pexpire[CacheKey(key[r])]
  /\ (\A r \in Runs : executor[r].ttlMs = NoTtl)
       => \A c \in CacheKeys : pexpire[c] = {}

(***************************************************************************)
(* C20 - callbacks that return.                                            *)
(***************************************************************************)
\* r settles in this step after cache.set of its action's outcome returned.
SettlesExecuted(r) ==
  pc[r] = "cacheResult" /\ pc'[r] = "release" /\ ~hist'[r].storeFailed
\* r settles in this step on the record its cache.get returned.
SettlesReplayed(r) ==
  /\ pc[r] = "getCachedResult" /\ pc'[r] = "release" /\ ~hist'[r].getFailed
\* The value a value record replays as: undefined when it has no payload.
ReplayedValue(o, cachedResult) ==
  IF cachedResult.value.def
    THEN Deserialize(o.valueSerializer, TextOf(cachedResult.value)).out
    ELSE Undef
ReplayedError(cachedResult) ==
  DefaultErrorSerializer_deserialize(TextOf(cachedResult.error)).out
\* The callback, supplied and returning, was called once with (k, v or e)
\* and no other callback was called; the run settled with what it returned.
ValueCallbackApplied(r, callback, v) ==
  /\ result'[r] = Resolved(CallbackValue(callback, v))
  /\ hist'[r].called = {CallOf(callback, key[r], v, NoError)}
ErrorCallbackApplied(r, callback, e) ==
  /\ result'[r] = Rejected(CallbackErrorValue(callback, e))
  /\ hist'[r].called = {CallOf(callback, key[r], Undef, e)}

\* C20, as stated: a run that executed the action and stored its outcome
\* settles with what onActionSuccess (the action resolved) or onActionError
\* (it rejected) returns, when that callback is supplied; a run that replays
\* a record settles with what onSuccessReplay (value record) or
\* onErrorReplay (error record) returns, when that callback is supplied.
\* The callback was called with the key and the value or error it replaces,
\* and no other callback was called.
C20_AsStated ==
  [][\A r \in Runs :
       LET o == options[r]
           cachedResult == RedisCache_get(store[CacheKey(key[r])])
       IN /\ (SettlesExecuted(r) /\ ~actionResult[r].isError
                 /\ o.onActionSuccess = "returns")
               => ValueCallbackApplied(r, "onActionSuccess", actionResult[r].value)
          /\ (SettlesExecuted(r) /\ actionResult[r].isError
                 /\ o.onActionError = "returns")
               => ErrorCallbackApplied(r, "onActionError", actionResult[r].error)
          /\ (SettlesReplayed(r) /\ cachedResult.type = "value"
                 /\ o.onSuccessReplay = "returns")
               => ValueCallbackApplied(r, "onSuccessReplay",
                                       ReplayedValue(o, cachedResult))
          /\ (SettlesReplayed(r) /\ cachedResult.type = "error"
                 /\ o.onErrorReplay = "returns")
               => ErrorCallbackApplied(r, "onErrorReplay", ReplayedError(cachedResult))
    ]_vars

\* C20, amended: as C20, but a run that replays a value record settles with
\* what onSuccessReplay returns only when the record has a payload; a record
\* without payload is replayed as undefined and no callback is called.
C20_CallbackReturns ==
  [][\A r \in Runs :
       LET o == options[r]
           cachedResult == RedisCache_get(store[CacheKey(key[r])])
       IN /\ (SettlesExecuted(r) /\ ~actionResult[r].isError
                 /\ o.onActionSuccess = "returns")
               => ValueCallbackApplied(r, "onActionSuccess", actionResult[r].value)
          /\ (SettlesExecuted(r) /\ actionResult[r].isError
                 /\ o.onActionError = "returns")
               => ErrorCallbackApplied(r, "onActionError", actionResult[r].error)
          /\ (SettlesReplayed(r) /\ cachedResult.type = "value"
                 /\ cachedResult.value.def /\ o.onSuccessReplay = "returns")
               => ValueCallbackApplied(r, "onSuccessReplay",
                                       ReplayedValue(o, cachedResult))
          /\ (SettlesReplayed(r) /\ cachedResult.type = "value"
                 /\ ~cachedResult.value.def)
               => result'[r] = Resolved(Undef) /\ hist'[r].called = {}
          /\ (SettlesReplayed(r) /\ cachedResult.type = "error"
                 /\ o.onErrorReplay = "returns")
               => ErrorCallbackApplied(r, "onErrorReplay", ReplayedError(cachedResult))
    ]_vars

\* The first call, with the four callbacks, ran an action that resolved with
\* "v1" and returned what onActionSuccess made of it; the second, with the
\* four callbacks and called after the first, replayed the record and
\* returned what onSuccessReplay made of "v1".
C20_Witness ==
  /\ \A r \in {1, 2} : options[r] = AllCallbacks(options[r].timeout)
  /\ Finished(1) /\ hist[1].invoked = 1 /\ actionResult[1].value = Str("v1")
  /\ result[1] = Resolved(CallbackValue("onActionSuccess", Str("v1")))
  /\ hist[1].called = {CallOf("onActionSuccess", "key1", Str("v1"), NoError)}
  /\ After(1, 2) /\ Finished(2) /\ hist[2].invoked = 0
  /\ result[2] = Resolved(CallbackValue("onSuccessReplay", Str("v1")))
  /\ hist[2].called = {CallOf("onSuccessReplay", "key1", Str("v1"), NoError)}

(***************************************************************************)
(* C21 - callbacks that throw.                                             *)
(***************************************************************************)
CallbackNames == {"onActionSuccess", "onActionError", "onSuccessReplay", "onErrorReplay"}
\* The error run() rejects with when the callback threw.
CallbackFailure(callback, k) ==
  IdempotentExecutorCallbackError(
    "Failed to execute " \o callback \o " callback", k, callback,
    "Error: " \o callback \o " failed")

\* C21: a run that has called one of its four callbacks, and the callback
\* threw, rejects with a callback error that names the callback, carries the
\* idempotency key and has what the callback threw as cause.
C21_CallbackThrows ==
  \A r \in Runs :
    \A c \in hist[r].called :
      options[r][c.callback] = "throws" =>
        /\ c.callback \in CallbackNames
        /\ result[r] = Rejected(CallbackFailure(c.callback, key[r]))
        /\ c.idempotencyKey = key[r]

\* The onActionError of the first call threw on the action's error; the
\* onErrorReplay of the second call, made after it, threw on the replayed
\* error.  Both calls rejected with the callback error of their callback.
C21_Witness ==
  /\ options[1].onActionError = "throws" /\ Finished(1) /\ hist[1].invoked = 1
  /\ result[1] = Rejected(CallbackFailure("onActionError", "key1"))
  /\ options[2].onErrorReplay = "throws" /\ Finished(2) /\ After(1, 2)
  /\ hist[2].invoked = 0
  /\ result[2] = Rejected(CallbackFailure("onErrorReplay", "key1"))

(***************************************************************************)
(* C22 - a shouldIgnoreError that throws.                                  *)
(***************************************************************************)
\* C22, as stated: a run that is handed a shouldIgnoreError that throws,
\* and whose action rejected, rejects with the callback error that names
\* shouldIgnoreError, and has invoked the action once.
C22_AsStated ==
  \A r \in Runs :
    (/\ Finished(r) /\ options[r].shouldIgnoreError = "throws"
     /\ hist[r].invoked = 1 /\ actionResult[r].isError
     /\ ~hist[r].storeFailed /\ ~hist[r].serializeFailed)
      => result[r] = Rejected(CallbackFailure("shouldIgnoreError", key[r]))

(***************************************************************************)
(* C23 - the action's own error goes out as it is.                         *)
(***************************************************************************)
\* The action of r rejected with an Error and r, which was handed no
\* onActionError, has settled.
RejectedWithError(r) ==
  /\ pc[r] \in {"release", "done"}
  /\ hist[r].rejected # NoError
  /\ options[r].onActionError = "none"

\* C23, as stated: a run whose action rejected with an Error and that was
\* handed no onActionError rejects with that very error.
C23_AsStated ==
  \A r \in Runs :
    RejectedWithError(r) => result[r] = Rejected(hist[r].rejected)

\* C23, amended: a run whose action rejected with an Error, that was handed
\* no onActionError and whose cache.set of the error returned, rejects with
\* that very error.
C23_OwnErrorUnwrapped ==
  \A r \in Runs :
    (RejectedWithError(r) /\ ~hist[r].storeFailed /\ ~hist[r].serializeFailed)
      => result[r] = Rejected(hist[r].rejected)

\* The action of the first call rejected with a CustomError, the error was
\* stored and the call rejected with the CustomError itself.
C23_Witness ==
  /\ Finished(1) /\ RejectedWithError(1) /\ ~hist[1].storeFailed
  /\ hist[1].rejected = MkError("CustomError", "boom")
  /\ result[1] = Rejected(MkError("CustomError", "boom"))
  /\ RedisCache_get(store[CacheKey("key1")]).type = "error"

(***************************************************************************)
(* C24 - the store key of a run.                                           *)
(***************************************************************************)
\* The key the tests look the record up at.
NamespacedKey(namespace, idempotencyKey) ==
  "idempotent-executor-result:"
    \o (IF namespace = "" THEN "" ELSE namespace \o ":") \o idempotencyKey
\* The key run() reads and writes the record of r at.
StoreKeyOf(r) == CacheKey(key[r])

\* C24, as stated: the store key of a run is the prefix, then the namespace
\* of its executor and ":" when it has one, then the idempotency key; and
\* two runs that differ in namespace or idempotency key have different
\* store keys.
C24_AsStated ==
  \A r, q \in Runs :
    (Started(r) /\ Started(q)) =>
      /\ StoreKeyOf(r) = NamespacedKey(executor[r].namespace, key[r])
      /\ <<executor[r].namespace, key[r]>> # <<executor[q].namespace, key[q]>>
           => StoreKeyOf(r) # StoreKeyOf(q)

(***************************************************************************)
(* C25 - an executor constructed with a ttlMs that is not positive.        *)
(***************************************************************************)
\* C25, as stated: no run is ever called on an executor that was
\* constructed with a ttlMs that is zero or negative, because constructing
\* it fails.
C25_AsStated ==
  \A r \in Runs : Started(r) => IsValidTtl(executor[r].ttlMs)

(***************************************************************************)
(* C26 - the store is read and written under the lock.                     *)
(***************************************************************************)
\* The step is the return of cache.get to r, or of cache.set.
ReadReturns(r) == pc[r] = "getCachedResult" /\ pc'[r] # "getCachedResult"
WriteReturns(r) == pc[r] = "cacheResult" /\ pc'[r] # "cacheResult"

\* C26: a run holds the lock of its key when its read of the store returns
\* and when its write returns; a record changes only in the write of a run
\* that holds the lock of the key; and the run whose record a run replays
\* had finished its write before that read.
C26_StoreUnderLock ==
  [][/\ \A r \in Runs :
          /\ (ReadReturns(r) \/ WriteReturns(r)) => lock[key[r]] = {r}
          /\ \A w \in hist'[r].replayed \ hist[r].replayed :
               /\ pc[w] \in {"release", "done"}
               /\ hist[w].writes = 1 /\ ~hist[w].storeFailed
               /\ key[w] = key[r]
    /\ \A c \in CacheKeys :
          store'[c] # store[c] =>
            \E r \in Runs :
              WriteReturns(r) /\ c = CacheKey(key[r]) /\ lock[key[r]] = {r}
    ]_vars

\* The second call holds the lock and has replayed the record the first
\* call wrote, while the third call waits for the lock.
C26_Witness ==
  /\ hist[2].replayed = {1} /\ pc[2] = "release" /\ lock[key[2]] = {2}
  /\ pc[3] = "acquiring" /\ attempts[3] > 0

(***************************************************************************)
(* C27 - a stored record does not change.                                  *)
(***************************************************************************)
\* C27, as stated: once a record is stored under a cache key, no step of a
\* run changes it.
C27_AsStated ==
  [][\A c \in CacheKeys : store[c] # EmptyHash => store'[c] = store[c]]_vars

(***************************************************************************)
(* C28 - an ignored error is not written.                                  *)
(***************************************************************************)
\* C28, as stated: a run whose action's error is ignored has sent no write
\* to the store, and when the key had no record before, it has none after
\* the run.
C28_AsStated ==
  \A r \in Runs :
    (/\ Finished(r) /\ options[r].ignoreErrors
     /\ hist[r].invoked = 1 /\ actionResult[r].isError)
      => /\ hist[r].writes = 0
         /\ (\A q \in Runs \ {r} : hist[q].writes = 0)
              => store[CacheKey(key[r])] = EmptyHash

(***************************************************************************)
(* C29 - the first outcome that is not ignored is the one that stays.      *)
(***************************************************************************)
\* Every call made before q had settled when q was called, and each was a
\* run whose action's error was ignored.
OnlyIgnoredBefore(q) ==
  \A w \in Runs : w < q => (After(w, q) /\ IgnoredItsError(w))

\* C29, as stated: a run that does not ignore errors, called after runs of
\* its key whose errors were all ignored, invokes the action and stores the
\* outcome, and every run called after it replays that outcome without
\* invoking the action.  (Runs none of whose store operations failed.)
C29_AsStated ==
  \A q \in Runs :
    (/\ ReadAndFinished(q) /\ ~options[q].ignoreErrors
     /\ ~hist[q].storeFailed /\ ~hist[q].serializeFailed
     /\ OnlyIgnoredBefore(q))
      => /\ hist[q].invoked = 1
         /\ \A l \in Runs :
              (After(q, l) /\ ReadAndFinished(l))
                => hist[l].invoked = 0 /\ SameOutcome(result[l], result[q])


\* C30: a run invokes the action at most once and calls cache.set at most
\* once; once its cache.set failed the run is settled with a critical error
\* of its key, and from then on it neither invokes the action nor writes
\* again, and its result stays.
C30_NoRetryAfterWriteFailure ==
  [][\A r \in Runs :
       /\ hist'[r].invoked <= 1 /\ hist'[r].writes <= 1
       /\ WriteFailed(r) =>
            /\ pc[r] \in {"release", "done"}
            /\ result[r] = Rejected(IdempotentExecutorCriticalError(
                               "Failed to set cached result", key[r], "RedisCacheError"))
            /\ hist'[r].invoked = hist[r].invoked
            /\ hist'[r].writes = hist[r].writes
            /\ result'[r] = result[r]
            /\ pc'[r] \in {"release", "done"}]_vars

C30_Witness ==
  /\ Finished(1) /\ WriteFailed(1) /\ actionResult[1].isError
  /\ hist[1].invoked = 1 /\ hist[1].writes = 1
  /\ result[1].error.cls = "IdempotentExecutorCriticalError"
  /\ store[CacheKey(key[1])] = EmptyHash
  /\ After(1, 2) /\ pc[2] = "cacheResult" /\ hist[2].invoked = 1


\* The run has settled with a critical error.
RejectedCritical(r) ==
  /\ pc[r] \in {"release", "done"}
  /\ result[r].kind = "rejected"
  /\ result[r].error.cls = "IdempotentExecutorCriticalError"

\* C31, as stated: when a run rejects with a critical error the store holds
\* no record of its key, and a run of the key called after it, before which
\* no other run stored anything, invokes the action again.
C31_AsStated ==
  \A r \in Runs :
    /\ (RejectedCritical(r) /\ pc[r] = "release")
         => store[CacheKey(key[r])] = EmptyHash
    /\ \A q \in Runs :
         (/\ RejectedCritical(r) /\ After(r, q) /\ ReadAndFinished(q)
          /\ \A w \in Runs \ {q} : ~HasStored(w))
           => hist[q].invoked = 1


\* r reads, in this step, a record that its routine replays: a value record,
\* or an error record when r does not ignore errors.
ReplaysRecord(r) ==
  LET cachedResult == RedisCache_get(store[CacheKey(key[r])])
  IN /\ ReadsRecord(r)
     /\ ~cachedResult.isNull
     /\ ~(cachedResult.type = "error" /\ options[r].ignoreErrors)
\* r settled without having invoked the action.
SettledWithoutAction(r) == pc[r] \in {"release", "done"} /\ hist[r].invoked = 0

ActionCallbackThrew(r, callback) ==
  /\ pc[r] \in {"release", "done"} /\ hist[r].invoked = 1
  /\ options[r][callback] = "throws"
  /\ \E c \in hist[r].called : c.callback = callback
\* The record cacheResult makes of the action's result of r.
RecordOf(r) ==
  RedisCache_set(EmptyHash,
                 cacheResultSerialize(actionResult[r], options[r].valueSerializer,
                                      options[r].errorSerializer).out)

\* C33, as stated: a run whose onActionSuccess or onActionError threw
\* rejects with the callback error, the record of what its action produced
\* was stored before the callback was called, and every run of the key
\* called after it replays that record without invoking the action.
C33_AsStated ==
  \A r \in Runs : \A callback \in {"onActionSuccess", "onActionError"} :
    ActionCallbackThrew(r, callback) =>
      /\ result[r] = Rejected(CallbackFailure(callback, key[r]))
      /\ HasStored(r)
      /\ pc[r] = "release" => store[CacheKey(key[r])] = RecordOf(r)
      /\ \A q \in Runs :
           (After(r, q) /\ ReadAndFinished(q))
             => hist[q].invoked = 0 /\ hist[q].replayed = {r}


\* C34: a run that reads a value record without value settles in that step
\* with undefined, whatever its serializer and callbacks: no callback is
\* called, the action is not invoked and the record stays as it is.
C34_AbsentPayloadShortCircuits ==
  [][\A r \in Runs :
       (/\ ReadsRecord(r)
        /\ RedisCache_get(store[CacheKey(key[r])]) = ValueResult(JsUndefined))
         => /\ pc'[r] = "release"
            /\ result'[r] = Resolved(Undef)
            /\ hist'[r].called = {}
            /\ hist'[r].invoked = 0
            /\ store' = store]_vars

\* The action of the first call resolved with undefined; the second call,
\* whose onSuccessReplay throws, resolved with undefined and called nothing.
C34_Witness ==
  /\ StoredUndefined(1)
  /\ After(1, 2) /\ Finished(2) /\ options[2].onSuccessReplay = "throws"
  /\ hist[2].replayed = {1}
  /\ result[2] = Resolved(Undef) /\ hist[2].called = {}


\* r reads, in this step, an error record of its key.
ReadsErrorRecord(r) ==
  LET cachedResult == RedisCache_get(store[CacheKey(key[r])])
  IN ReadsRecord(r) /\ ~cachedResult.isNull /\ cachedResult.type = "error"
\* r settles in this step with the stored error, its action not invoked.
ReplaysStoredError(r) ==
  /\ pc'[r] = "release"
  /\ hist'[r].invoked = 0
  /\ RejectedLike(result'[r],
                  ReplayedError(RedisCache_get(store[CacheKey(key[r])])))

\* C35, as stated: a run that reads an error record of its key rejects with
\* the stored error and does not invoke the action, whether or not it was
\* told to ignore errors.
C35_AsStated ==
  [][\A r \in Runs : ReadsErrorRecord(r) => ReplaysStoredError(r)]_vars

\* C35, amended: a run that reads an error record of its key and was not
\* told to ignore errors rejects with the stored error and does not invoke
\* the action; a run that was told to ignore errors does not settle on the
\* record: it goes on to invoke its action.
C35_ReplayedUnlessIgnoring ==
  [][\A r \in Runs :
       ReadsErrorRecord(r) =>
         IF options[r].ignoreErrors
           THEN /\ pc'[r] = "action" /\ hist'[r].invoked = 1
                /\ result'[r] = Pending
                /\ store' = store
           ELSE ReplaysStoredError(r)]_vars

\* The first call stored the error of its action; the second, called after
\* it with default options, rejected with it; the third, called after them
\* and told to ignore errors, has the same record before it and is about to
\* run its action.
C35_Witness ==
  /\ StoredItsError(1) /\ ~options[1].ignoreErrors
  /\ After(1, 2) /\ Finished(2) /\ ~options[2].ignoreErrors
  /\ hist[2].invoked = 0 /\ RejectedLike(result[2], actionResult[1].error)
  /\ After(2, 3) /\ options[3].ignoreErrors
  /\ pc[3] = "action" /\ hist[3].ignored /\ hist[3].invoked = 1
  /\ RedisCache_get(store[CacheKey(key[3])]).type = "error"


\* C27, amended: a stored record is changed by no run but one that was told
\* to ignore errors and passed over the record, an error record: the
\* cache.set of that run sets the type and the payload of its own outcome
\* in the record and leaves the other field.  No run empties a record.
C27_ChangedOnlyByIgnoring ==
  [][\A c \in CacheKeys :
       (store[c] # EmptyHash /\ store'[c] # store[c]) =>
         \E w \in Runs :
           /\ WriteReturns(w) /\ c = CacheKey(key[w])
           /\ options[w].ignoreErrors /\ hist[w].ignored
           /\ RedisCache_get(store[c]).type = "error"
           /\ store'[c] = RedisCache_set(
                            store[c],
                            cacheResultSerialize(actionResult[w],
                                                 options[w].valueSerializer,
                                                 options[w].errorSerializer).out)
           /\ store'[c] # EmptyHash]_vars

\* The first call, with default options, stored the error of its action;
\* the second, told to ignore errors and called after it, ran its action
\* and stored "v1": the record is a value record that still has the error.
C27_Witness ==
  /\ StoredItsError(1) /\ ~options[1].ignoreErrors
  /\ After(1, 2) /\ Finished(2) /\ options[2].ignoreErrors
  /\ hist[2].ignored /\ hist[2].invoked = 1 /\ HasStored(2)
  /\ actionResult[2].value = Str("v1")
  /\ RedisCache_get(store[CacheKey(key[2])]) = ValueResult(JsString(Quote("v1")))
  /\ store[CacheKey(key[2])].error.def


\* C31, amended: when a run rejects with a critical error, nothing of its
\* outcome is in the store.  A run that passed over no record leaves the key
\* without record, and a run of the key called after it, before which no
\* other run stored anything, invokes the action again; a run told to
\* ignore errors that passed over an error record leaves that record.
C31_NothingLeftBehind ==
  \A r \in Runs :
    /\ (RejectedCritical(r) /\ pc[r] = "release") =>
         IF hist[r].ignored
           THEN /\ options[r].ignoreErrors
                /\ RedisCache_get(store[CacheKey(key[r])]).type = "error"
                /\ r \notin writer[CacheKey(key[r])]
           ELSE store[CacheKey(key[r])] = EmptyHash
    /\ \A q \in Runs :
         (/\ RejectedCritical(r) /\ ~hist[r].ignored
          /\ After(r, q) /\ ReadAndFinished(q)
          /\ \A w \in Runs \ {q} : ~HasStored(w))
           => hist[q].invoked = 1

\* The write of the first call failed and it rejected with a critical
\* error; the second, called after it, invoked the action and stored its
\* outcome; the third, called after the second, replayed that record.
C31_Witness ==
  /\ Finished(1) /\ RejectedCritical(1) /\ WriteFailed(1) /\ ~hist[1].ignored
  /\ After(1, 2) /\ ReadAndFinished(2) /\ hist[2].invoked = 1 /\ HasStored(2)
  /\ After(2, 3) /\ Finished(3) /\ hist[3].replayed = {2}


\* C33, amended: as C33, but the runs called afterwards that replay the
\* record are those not told to ignore errors, and any run when the record
\* is a value record; a run told to ignore errors passes over an error
\* record and invokes its action.
C33_StoredBeforeCallback ==
  \A r \in Runs : \A callback \in {"onActionSuccess", "onActionError"} :
    ActionCallbackThrew(r, callback) =>
      /\ result[r] = Rejected(CallbackFailure(callback, key[r]))
      /\ HasStored(r)
      /\ pc[r] = "release" => store[CacheKey(key[r])] = RecordOf(r)
      /\ \A q \in Runs :
           (After(r, q) /\ ReadAndFinished(q)) =>
             IF options[q].ignoreErrors /\ actionResult[r].isError
               THEN hist[q].invoked = 1 /\ hist[q].ignored
               ELSE hist[q].invoked = 0 /\ hist[q].replayed = {r}

\* The action of the first call resolved with "v1" and its onActionSuccess
\* threw; the second call, made after it, replayed "v1".
C33_Witness ==
  /\ ActionCallbackThrew(1, "onActionSuccess") /\ Finished(1)
  /\ result[1] = Rejected(CallbackFailure("onActionSuccess", key[1]))
  /\ actionResult[1].value = Str("v1")
  /\ After(1, 2) /\ Finished(2) /\ hist[2].invoked = 0
  /\ hist[2].replayed = {1} /\ result[2] = Resolved(Str("v1"))


\* The errors a deserialized error record gives: plain Errors with the
\* stored name, message and stack.
DeserializedErrors ==
  {[NoError EXCEPT !.cls = "Error", !.name = t[1], !.message = t[2], !.stack = t[3]] :
     t \in SerializedErrorUniverse}
\* The errors onActionError and onErrorReplay return.
TransformedErrors ==
  {CallbackErrorValue(c, NoError) : c \in {"onActionError", "onErrorReplay"}}
\* The action's own error, as thrown, as replayed, or as a callback made it.
OwnErrors == ActionErrors \cup DeserializedErrors \cup TransformedErrors

\* C36: a run that has rejected has rejected with an executor error of one
\* of the six classes that carries the key of the run, or with the action's
\* own error (as thrown, as deserialized, or as a callback returned it);
\* never with the ReplayedErrorWrapper; and with an unknown error only when
\* the lock was not acquired, its cause being the lock's error and no
\* executor error.
C36_RejectionsClassified ==
  \A r \in Runs :
    result[r].kind = "rejected" =>
      LET e == result[r].error
      IN /\ e.cls # "ReplayedErrorWrapper" /\ e.name # "ReplayedErrorWrapper"
         /\ e # NoError
         /\ \/ /\ e.cls \in ErrorBaseClasses /\ e.name = e.cls
               /\ e.idempotencyKey = key[r]
            \/ e \in OwnErrors /\ hist[r].acquired
         /\ e.cls = "IdempotentExecutorUnknownError" =>
              /\ ~hist[r].acquired
              /\ e.cause = "ExecutionError"
              /\ e.cause \notin ErrorBaseClasses

\* The first call rejected with the error of its action; the second gave up
\* on the lock the first held and rejected with an unknown error.
C36_Witness ==
  /\ Finished(1) /\ result[1] = Rejected(MkError("CustomError", "boom"))
  /\ Finished(2) /\ ~hist[2].acquired
  /\ result[2].error.cls = "IdempotentExecutorUnknownError"
  /\ hist[2].gaveUpOn = {1}


\* The run gave up on the lock.
GaveUp(r) == pc[r] = "done" /\ ~hist[r].acquired

\* C37: every run that was called settles; a run makes no more attempts to
\* acquire the lock than its timeout allows, and one that has made them all
\* without getting the lock has rejected with an unknown error.
C37_EveryRunSettles ==
  /\ [](\A r \in Runs :
          /\ attempts[r] <= MaxAttempts(options[r].timeout)
          /\ GaveUp(r) =>
               /\ attempts[r] = MaxAttempts(options[r].timeout)
               /\ result[r].kind = "rejected"
               /\ result[r].error.cls = "IdempotentExecutorUnknownError")
  /\ \A r \in Runs :
       Started(r) ~> (Finished(r) /\ result[r] # Pending)

\* The second call has made its two attempts and rejected while the action
\* of the first is still running.
C37_Witness ==
  /\ pc[1] = "action" /\ result[1] = Pending
  /\ GaveUp(2) /\ attempts[2] = MaxAttempts(options[2].timeout)
  /\ attempts[2] = MaxRetryCount + 1
  /\ result[2].error.cls = "IdempotentExecutorUnknownError"


\* What the serializer of r threw on the result of its action.
SerializerThrew(r) ==
  cacheResultSerialize(actionResult[r], options[r].valueSerializer,
                       options[r].errorSerializer).thrown

\* C38: a run whose serializer threw on the result of its action, a value
\* or an error, has rejected with a critical error of its key whose cause
\* is what the serializer threw; it sent no write and is the writer of no
\* record, it called no callback, and it did not settle with the result of
\* its action.
C38_SerializeFailureIsCritical ==
  \A r \in Runs :
    hist[r].serializeFailed =>
      /\ pc[r] \in {"release", "done"} /\ hist[r].invoked = 1
      /\ SerializerThrew(r) # ""
      /\ result[r] = Rejected(IdempotentExecutorCriticalError(
                                "Failed to set cached result", key[r],
                                SerializerThrew(r)))
      /\ hist[r].writes = 0
      /\ \A c \in CacheKeys : r \notin writer[c]
      /\ hist[r].called = {}
      /\ result[r] # Resolved(actionResult[r].value)
      /\ result[r] # Rejected(actionResult[r].error)

\* The action of the first call resolved with a value JSON cannot hold, the
\* action of the second rejected and its error serializer threw; both calls
\* rejected with a critical error and the store is empty.
C38_Witness ==
  /\ Finished(1) /\ hist[1].serializeFailed /\ actionResult[1].value = Cyclic
  /\ result[1].error.cause = "TypeError: Converting circular structure to JSON"
  /\ Finished(2) /\ hist[2].serializeFailed /\ actionResult[2].isError
  /\ options[2].errorSerializer = "ThrowingErrorSerializer"
  /\ result[2].error.cls = "IdempotentExecutorCriticalError"
  /\ result[2].error.cause = "Error: cannot serialize error"
  /\ store[CacheKey("key1")] = EmptyHash


\* The one set made on c so far was made on no record, and a get followed.
ReadAfterFirstSet(c) == Len(setCalls[c]) = 1 /\ getResult[c] # NotRead

\* C39, as stated: a get that follows the first set on a key returns the
\* CachedResult handed to set; a get returns null only when there is no
\* record under the key.
C39_AsStated ==
  \A c \in CacheKeys :
    /\ ReadAfterFirstSet(c) => getResult[c] = setCalls[c][1]
    /\ getResult[c] = Null => (setCalls[c] = <<>> /\ store[c] = EmptyHash)

\* C39, amended: as C39, but a value whose payload is the empty string is
\* returned as the value without payload.
C39_RoundTrip ==
  \A c \in CacheKeys :
    /\ ReadAfterFirstSet(c) =>
         IF setCalls[c][1] = ValueResult(JsString(""))
           THEN getResult[c] = ValueResult(JsUndefined)
           ELSE getResult[c] = setCalls[c][1]
    /\ getResult[c] = Null => (setCalls[c] = <<>> /\ store[c] = EmptyHash)

\* On one key a value without payload was set and read back as it is; on
\* the other an error with the empty text was set and read back as it is.
C39_Witness ==
  \E c, d \in CacheKeys :
    /\ setCalls[c] = <<ValueResult(JsUndefined)>>
    /\ getResult[c] = ValueResult(JsUndefined)
    /\ setCalls[d] = <<ErrorResult(JsString(""))>>
    /\ getResult[d] = ErrorResult(JsString(""))


(***************************************************************************)
(* C40: for a valid timeout t the lock is requested with duration ceil(t), *)
(* retryDelay 200, retryCount floor(ceil(t) / 200) and an extension        *)
(* threshold of about half of it; retryCount and the threshold are whole   *)
(* numbers and retryCount times 200 is at most the duration.               *)
(***************************************************************************)
C40_AsStated ==
  \A r \in Runs :
    (usingArgs[r] # NoUsing /\ usingArgs[r].timeout.num > 0) =>
      LET t == usingArgs[r].timeout
          duration == usingArgs[r].duration
          settings == usingArgs[r].settings
      IN /\ SameNumber(duration, Ms(Ceil(t)))
         /\ SameNumber(settings.retryDelay, Ms(RetryDelay))
         /\ SameNumber(settings.retryCount, Ms(Ceil(t) \div RetryDelay))
         /\ IsInteger(settings.retryCount)
         /\ IsInteger(settings.automaticExtensionThreshold)
         /\ AtMost(Ms(Ceil(t) - 1), Times(settings.automaticExtensionThreshold, 2))
         /\ AtMost(Times(settings.automaticExtensionThreshold, 2), Ms(Ceil(t) + 1))
         /\ AtMost(Times(settings.retryCount, RetryDelay), duration)

=============================================================================
